---- MODULE Spec2Model ----
(***************************************************************************)
(* Model of the retrieval-and-recommendation core of TimelessSkin:         *)
(*   RecommendationEngine  (src/src/engines/recommendation_engine.py)      *)
(*   KnowledgeManager      (src/src/engines/knowledge_base.py)             *)
(*   EmbeddingModel        (src/src/models/embedding_model.py)             *)
(*   RAGModel              (src/src/models/rag_model.py)                   *)
(*                                                                         *)
(* Text.  Python strings are modelled as sequences of tokens, one token    *)
(* per character.  A Latin letter is itself; a CJK character is written    *)
(* as its pinyin (nv = U+5973, nan = U+7537, shi = U+58EB, xing = U+6027,  *)
(* ...).  `kw in text` is a real substring search over these sequences,    *)
(* so "man" is found inside "woman" and "male" inside "female".            *)
(*                                                                         *)
(* Numbers.  Scores are integers in units of 10^-5: a sum of rule scores   *)
(* in thousandths, times random_factor in percent.                         *)
(*                                                                         *)
(* Specifications.  Spec is one call of generate_recommendations on        *)
(* arguments drawn in Init; SpecKM is a KnowledgeManager from its          *)
(* construction on; SpecEmbed is one call of EmbeddingModel.predict, one   *)
(* HTTP attempt per step; SpecRAG is a RAGModel from its construction on;  *)
(* SpecConc is SpecKM with update_knowledge taken one statement at a time  *)
(* while another thread calls search; SpecStale is a KnowledgeManager that *)
(* has answered one cached search; SpecEmbedLive is SpecEmbed with every   *)
(* HTTP attempt coming to an end.  Each holds the other components at      *)
(* rest.                                                                   *)
(***************************************************************************)
EXTENDS Integers, Sequences, FiniteSets, TLC

VARIABLES
    \* ---- RecommendationEngine.generate_recommendations: one call ----
    skin_conditions,   \* argument: [kind, items]
    user_profile,      \* argument: [kind, detected_gender, sa_key, sa_kind, ...]
    product_info,      \* argument: the catalog, a sequence of products
    rec_pc,            \* "idle" (no call in this behaviour), "called", "returned"
    rec_result,        \* the list generate_recommendations returned
    rec_raised,        \* TRUE iff an exception left generate_recommendations
    rec_trace,         \* what _match_products did: [path, matched, diverse]
    \* ---- KnowledgeManager ----
    disk,              \* the files of the knowledge directory
    documents,         \* self.documents
    metadata_index,    \* self.metadata_index: [key, value] entries, value a list of positions
    vector_index,      \* self.vector_index: None or an IndexFlatL2
    embeddings_matrix, \* self.embeddings_matrix: None or its shape
    cache,             \* self.cache: [key, value] entries
    initialized,       \* self._initialized
    km_last,           \* the last call on the KnowledgeManager: [op, raised, result, args]
    km_ops,            \* number of calls made after the constructor
    \* ---- EmbeddingModel.predict: one call ----
    em_input,          \* argument: [is_str, n]: a str, or a list of n texts
    em_pc,             \* "idle", "called", "batch", "returned"
    em_i,              \* offset of the current batch in the input
    em_attempt,        \* attempt number within the current batch, from 0
    em_out,            \* all_embeddings
    em_log,            \* per finished batch: [size, attempts, succeeded]
    em_raised,         \* TRUE iff an exception left predict
    \* ---- RAGModel (rag_model.py) ----
    rag_disk,          \* the two product files: [all, elder]
    all_products,      \* self.all_products.get("products", [])
    elder_products,    \* self.elder_products.get("products", [])
    rag_initialized,   \* self._initialized
    rag_last,          \* the last call on the RAGModel
    rag_ops,           \* number of calls made on the RAGModel
    \* ---- KnowledgeManager.update_knowledge, statement by statement ----
    upd                \* the call in progress: [pc, todo, answer, old, new]

vars == <<skin_conditions, user_profile, product_info, rec_pc, rec_result,
          rec_raised, rec_trace, disk, documents, metadata_index, vector_index,
          embeddings_matrix, cache, initialized, km_last, km_ops, em_input,
          em_pc, em_i, em_attempt, em_out, em_log, em_raised, rag_disk,
          all_products, elder_products, rag_initialized, rag_last, rag_ops, upd>>

recVars == <<skin_conditions, user_profile, product_info, rec_pc, rec_result,
             rec_raised, rec_trace>>
kmVars == <<disk, documents, metadata_index, vector_index, embeddings_matrix,
            cache, initialized, km_last, km_ops>>
emVars == <<em_input, em_pc, em_i, em_attempt, em_out, em_log, em_raised>>
ragVars == <<rag_disk, all_products, elder_products, rag_initialized, rag_last,
             rag_ops>>

\* Python None / JSON null where a string is expected.
None == <<"<None>">>

(***************************************************************************)
(* Text helpers                                                            *)
(***************************************************************************)

\* Python `kw in text` for two strings.
IsSubstr(kw, text) ==
    \E i \in 0..(Len(text) - Len(kw)) : SubSeq(text, i + 1, i + Len(kw)) = kw

\* any(word in text for word in words)
AnyIn(words, text) == \E w \in words : IsSubstr(w, text)

\* str.lower(): the upper-case Latin letters the catalog uses.
LowerTok(c) ==
    CASE c = "W" -> "w"
      [] c = "M" -> "m"
      [] c = "F" -> "f"
      [] c = "L" -> "l"
      [] OTHER -> c

Lower(text) == [i \in DOMAIN text |-> LowerTok(text[i])]

\* str(x): a string is itself, None is the text "None".
Str(x) == IF x = None THEN <<"N", "o", "n", "e">> ELSE x

\* x.lower() on a value read with dict.get: a string is lowered, None has no
\* attribute lower (AttributeError).
LowerRaises(x) == x = None

SeqSum(s) ==
    LET f[i \in 0..Len(s)] == IF i = 0 THEN 0 ELSE f[i - 1] + s[i]
    IN f[Len(s)]

\* All orders of the positions in `idx`: what random.shuffle may leave.
Perms(idx) ==
    {o \in [1..Cardinality(idx) -> idx] :
        \A i, j \in DOMAIN o : i # j => o[i] # o[j]}

(***************************************************************************)
(* Keyword tables of recommendation_engine.py                              *)
(***************************************************************************)
Nv == <<"nv">>
Nan == <<"nan">>
NvShi == <<"nv", "shi">>
NvXing == <<"nv", "xing">>
NanShi == <<"nan", "shi">>
NanXing == <<"nan", "xing">>
ZhuanYong == <<"zhuan", "yong">>
XiLie == <<"xi", "lie">>
Woman == <<"w", "o", "m", "a", "n">>
Man == <<"m", "a", "n">>
Female == <<"f", "e", "m", "a", "l", "e">>
Male == <<"m", "a", "l", "e">>

\* lines 222, 254, 262, 423
MaleProductWords ==
    {NanShi, NanXing, Nan, Man, Male, NanXing \o ZhuanYong, NanShi \o ZhuanYong}

\* lines 234, 242, 265, 428
FemaleProductWords ==
    {NvShi, NvXing, Nv, Woman, Female, NvXing \o ZhuanYong, NvShi \o ZhuanYong}

\* lines 183-188
female_keywords ==
    {NvXing, NvShi, Nv, Woman, Female, NvXing \o ZhuanYong, NvShi \o ZhuanYong,
     <<"nv", "hai">>, <<"nv", "sheng">>, NvXing \o <<"yong", "hu">>,
     NvXing \o <<"ji", "fu">>, NvXing \o <<"pi", "fu">>,
     NvXing \o <<"hu4", "fu">>, <<"ta_she">>, <<"ta_she", "de">>,
     NvXing \o <<"peng", "you">>, NvXing \o <<"ke", "hu">>,
     NvXing \o <<"xiao", "fei", "zhe">>, NvXing \o <<"mian", "bu">>,
     NvXing \o <<"te", "zheng">>, NvXing \o <<"lun", "kuo">>,
     NvXing \o <<"fu", "zhi">>}

\* lines 192-197
male_keywords ==
    {NanXing, NanShi, Nan, Man, Male, NanXing \o ZhuanYong, NanShi \o ZhuanYong,
     <<"nan", "hai">>, <<"nan", "sheng">>, NanXing \o <<"yong", "hu">>,
     NanXing \o <<"ji", "fu">>, NanXing \o <<"pi", "fu">>,
     NanXing \o <<"hu4", "fu">>, <<"ta_he">>, <<"ta_he", "de">>,
     NanXing \o <<"peng", "you">>, NanXing \o <<"ke", "hu">>,
     NanXing \o <<"xiao", "fei", "zhe">>, NanXing \o <<"mian", "bu">>,
     NanXing \o <<"te", "zheng">>, NanXing \o <<"lun", "kuo">>,
     NanXing \o <<"fu", "zhi">>}

\* lines 418-419, 552-553: the second gender check of _match_products
SecondCheckFemaleWords == {NvXing, NvShi, Nv, Woman, Female}
SecondCheckMaleWords == {NanXing, NanShi, Nan, Man, Male}

\* lines 557, 562: the markers the relaxed pass still excludes
RelaxedMaleWords ==
    {NanShi \o ZhuanYong, NanXing \o ZhuanYong, NanShi \o XiLie, NanXing \o XiLie}
RelaxedFemaleWords ==
    {NvShi \o ZhuanYong, NvXing \o ZhuanYong, NvShi \o XiLie, NvXing \o XiLie}

\* line 478 (ou lai ya = L'Oreal in Chinese), in the order the code scans them
brand_keywords ==
    << <<"ou", "lai", "ya">>, <<"l", "o", "r", "e", "a", "l">>,
       <<"ba", "li", "ou", "lai", "ya">> >>

\* line 486: cream, serum, lotion, toner, mask, cleanser
category_keywords ==
    << <<"mian", "shuang">>, <<"jing", "hua">>, <<"ru", "ye">>,
       <<"shuang3", "fu", "shui">>, <<"mian", "mo">>, <<"jie", "mian">> >>

\* lines 277-296: age words looked up in the skin analysis and the product
ElderlyWords ==
    {<<"lao", "nian">>, <<"nian", "zhang">>, <<"cheng", "shu">>,
     <<"5", "0", "+">>, <<"6", "0", "+">>, <<"7", "0", "+">>}
MiddleAgedWords == {<<"zhong", "nian">>, <<"4", "0", "+">>, <<"4", "5", "+">>}
ElderProductWords ==
    {<<"lao", "nian">>, <<"nian", "zhang">>, <<"cheng", "shu">>,
     <<"kang", "lao">>, <<"kang", "zhou">>, <<"jin", "zhi">>}
ElderBenefitWords ==
    {<<"kang", "zhou">>, <<"jin", "zhi">>, <<"xiu", "hu">>, <<"zi", "yang">>,
     <<"wen", "he">>}
ElderIngredientWords ==
    {<<"shen", "jing", "xian", "an">>, <<"bo", "niao", "suan">>,
     <<"jiao", "yuan", "dan", "bai">>, <<"wei", "sheng", "su", "e">>}
MiddleProductWords ==
    {<<"kang", "chu", "lao">>, <<"jin", "zhi">>, <<"xiu", "hu">>}

\* lines 323-333: concern names and product words of the category bonus
GanZao == <<"gan", "zao">>
QueShui == <<"que", "shui">>
ZhouWen == <<"zhou", "wen">>
LaoHua == <<"lao", "hua">>
MinGan == <<"min", "gan3">>
BaoShi == <<"bao", "shi1">>
BuShui == <<"bu", "shui">>

(***************************************************************************)
(* Inputs of generate_recommendations                                      *)
(***************************************************************************)
Product(name, details, type, concerns, benefits, category, features) ==
    [product_name |-> name, details |-> details, product_type |-> type,
     target_concerns |-> concerns, benefits |-> benefits, category |-> category,
     special_features |-> features]

Cream == <<"mian", "shuang">>
Serum == <<"jing", "hua">>
EyeCream == <<"yan", "shuang">>
OuLaiYa == <<"ou", "lai", "ya">>

\* The catalog entries the calls draw from.
pMaleCream ==
    Product(NanShi \o BaoShi \o <<"shuang">>, <<>>, Cream, {GanZao}, BaoShi,
            BaoShi, FALSE)
pFemaleCream ==
    Product(NvShi \o BaoShi \o <<"shuang">>, <<>>, Cream, {GanZao}, BaoShi,
            BaoShi, FALSE)
pWomanSerum ==
    Product(<<"W", "o", "m", "a", "n", " ">> \o Serum, <<>>, Serum, {}, BuShui,
            <<>>, FALSE)
pMaleOnlyCream ==
    Product(NanShi \o ZhuanYong \o Cream, <<>>, Cream, {}, <<>>, <<>>, FALSE)
pLorealCream ==
    Product(OuLaiYa \o Cream, <<>>, Cream, {GanZao}, BaoShi, BaoShi, TRUE)
pLorealSerum ==
    Product(OuLaiYa \o Serum, <<"kang", "zhou">>, Serum, {}, <<>>, <<>>, FALSE)
pLorealEye ==
    Product(OuLaiYa \o EyeCream, <<>>, EyeCream, {}, <<>>, <<>>, FALSE)
pNullType ==
    Product(<<"ru", "ye">>, <<>>, None, {}, <<>>, <<>>, FALSE)

pLorealNight ==
    Product(OuLaiYa \o <<"wan", "shuang">>, <<>>, Cream, {}, <<>>, <<>>, FALSE)
pLorealDay ==
    Product(OuLaiYa \o <<"ri", "shuang">>, <<>>, Cream, {}, BaoShi, <<>>, FALSE)

ProductPool ==
    {pMaleCream, pFemaleCream, pWomanSerum, pMaleOnlyCream, pLorealCream,
     pLorealSerum, pLorealEye, pNullType}

\* The longest catalog of a call.
MaxCatalog == 3

Catalogs == UNION {[1..n -> ProductPool] : n \in 0..MaxCatalog}

\* A catalog of four products of one brand, three of them of one category.
LongCatalogs == {<<pLorealCream, pLorealSerum, pLorealNight, pLorealDay>>}

\* user_profile as passed by the caller.  kind "none": None or {}; "dict": a
\* dict; "nondict": any other truthy value (here a string).  sa_key says
\* under which key the skin analysis sits, sa_kind whether it is a string or
\* a dict with the fields xingbie (gender) and a free text.
Profile(kind, dg, key, sakind, g, text, needs) ==
    [kind |-> kind, detected_gender |-> dg, sa_key |-> key, sa_kind |-> sakind,
     sa_gender |-> g, sa_text |-> text, special_needs |-> needs]

Undetected == "undetected"   \* the default of user_profile.get("detected_gender")
FemaleUser == "female"       \* detected_gender "nv xing"
MaleUser == "male"           \* detected_gender "nan xing"

ProfilePool ==
    {Profile("none", Undetected, "absent", "str", <<>>, <<>>, FALSE),
     Profile("dict", Undetected, "absent", "str", <<>>, <<>>, TRUE),
     Profile("dict", FemaleUser, "absent", "str", <<>>, <<>>, FALSE),
     Profile("dict", FemaleUser, "skin_analysis", "str", <<>>,
             NvXing \o <<"pi", "fu">> \o GanZao, FALSE),
     Profile("dict", MaleUser, "skin_analysis", "str", <<>>,
             NanXing \o <<"lao", "nian">>, TRUE),
     Profile("dict", Undetected, "skin_analysis", "dict", Nan,
             <<"zhong", "nian">>, FALSE),
     Profile("nondict", Undetected, "raw_profile", "str", <<>>,
             <<"ta_she", "de">> \o <<"pi", "fu">>, FALSE)}

\* skin_conditions as passed by the caller: a dict concern -> severity (in
\* thousandths), an empty dict, or a value that is no dict.
Conditions(kind, items) == [kind |-> kind, items |-> items]

\* a severity far below zero: nothing in the code checks the values
NegativeSeverity == Conditions("dict", << [concern |-> GanZao, score |-> -40000] >>)

ConditionPool ==
    {Conditions("dict", << [concern |-> GanZao, score |-> 800] >>),
     NegativeSeverity,
     Conditions("dict", <<>>),
     Conditions("nondict", <<>>)}

\* The draws of one _calculate_match_score call: micro_random in thousandths
\* (random.uniform(-0.1, 0.1), line 351) and random_factor in percent
\* (random.uniform(0.95, 1.05), line 130).  Both generators are seeded from
\* the clock, so two calls may or may not draw the same values.
JitterPool == {[micro |-> -100, factor |-> 95], [micro |-> 100, factor |-> 105]}

(***************************************************************************)
(* RecommendationEngine._calculate_match_score                             *)
(***************************************************************************)
VetoScore == -10000000      \* -100.0, lines 229-232 and 249-252
ScoreFloor == -5000000      \* -50.0, lines 359-360 and 399

\* The dict generate_recommendations hands on (lines 33-36): None or {}
\* becomes {}, a value that is no dict becomes {"raw_profile": value}.
HasAnalysis(up) == up.kind # "none" /\ up.sa_key # "absent"

\* str({...}) of a skin-analysis dict with a gender field and a text field.
DictStr(up) ==
    <<"{'", "xing", "bie", "': '">> \o up.sa_gender \o <<"', '">>
        \o <<"fen", "xi", "': '">> \o up.sa_text \o <<"'}">>

\* lines 139-148: skin_analysis = str(skin_analysis_data).lower(), or "" when
\* the data is missing or falsy.
SkinAnalysisCalc(up) ==
    IF ~HasAnalysis(up) THEN <<>>
    ELSE IF up.sa_kind = "dict" THEN Lower(DictStr(up))
    ELSE Lower(up.sa_text)

\* lines 409-415: the same text as _match_products rebuilds it.
SkinAnalysisMatch(up) == SkinAnalysisCalc(up)

DetectedGender(up) == IF up.kind = "dict" THEN up.detected_gender ELSE Undetected

\* lines 132-136
ProductText(p) == Lower(Str(p.product_name)) \o <<" ">> \o Lower(Str(p.details))

\* lines 155-209: the user's gender as _calculate_match_score resolves it,
\* as a pair [is_female, is_male].  Each method runs only while neither flag
\* is set; after the keyword scan both may be TRUE, and then the female
\* branch of line 220 is the one taken.
Flags(f, m) == [is_female |-> f, is_male |-> m]

Unset(g) == ~g.is_female /\ ~g.is_male

\* lines 159-165: detected_gender from the caller's state
FromState(dg) == Flags(dg = FemaleUser, dg = MaleUser)

\* lines 168-175: the gender field of a dict analysis (g is its lowered value)
FromDict(prev, isDict, g) ==
    IF Unset(prev) /\ isDict
    THEN Flags(g \in {NvXing, Nv}, g \notin {NvXing, Nv} /\ g \in {NanXing, Nan})
    ELSE prev

\* lines 178-198: keyword scan of the analysis text
FromText(prev, sa) ==
    IF Unset(prev) /\ sa # <<>>
    THEN Flags(AnyIn(female_keywords, sa), AnyIn(male_keywords, sa))
    ELSE prev

\* lines 203-209: inferred from the product's own name
FromProductName(prev, name) ==
    IF Unset(prev)
    THEN Flags(AnyIn({NvShi, NvXing, Nv}, name),
               ~AnyIn({NvShi, NvXing, Nv}, name)
                   /\ AnyIn({NanShi, NanXing, Nan}, name))
    ELSE prev

ResolveGender(p, up) ==
    FromProductName(
        FromText(
            FromDict(FromState(DetectedGender(up)),
                     HasAnalysis(up) /\ up.sa_kind = "dict",
                     Lower(up.sa_gender)),
            SkinAnalysisCalc(up)),
        Lower(Str(p.product_name)))

\* lines 219-270: [veto, score] of the gender rule, for the resolved gender g
\* and the product's markers
GenderDecision(g, maleMarked, femaleMarked) ==
    IF g.is_female
    THEN IF maleMarked THEN [veto |-> TRUE, score |-> VetoScore]
         ELSE [veto |-> FALSE, score |-> 2000]
    ELSE IF g.is_male
    THEN IF femaleMarked THEN [veto |-> TRUE, score |-> VetoScore]
         ELSE [veto |-> FALSE, score |-> 2000]
    ELSE IF maleMarked \/ femaleMarked THEN [veto |-> FALSE, score |-> 1000]
         ELSE [veto |-> FALSE, score |-> 2000]

MaleMarked(p) == AnyIn(MaleProductWords, ProductText(p))
FemaleMarked(p) == AnyIn(FemaleProductWords, ProductText(p))

GenderRule(p, up) ==
    GenderDecision(ResolveGender(p, up), MaleMarked(p), FemaleMarked(p))

\* lines 274-300, for the analysis text sa and the product text
AgeRule(sa, text) ==
    IF AnyIn(ElderlyWords, sa)
    THEN (IF AnyIn(ElderProductWords, text) THEN 3000 ELSE 0)
         + (IF AnyIn(ElderBenefitWords, text) THEN 2000 ELSE 0)
         + (IF AnyIn(ElderIngredientWords, text) THEN 1500 ELSE 0)
    ELSE IF AnyIn(MiddleAgedWords, sa) /\ AnyIn(MiddleProductWords, text)
    THEN 2000
    ELSE 0

AgeScore(p, up) == AgeRule(SkinAnalysisCalc(up), ProductText(p))

\* lines 302-317: score * 1.5, * 1.0 or * 0.8 per concern
ProblemScore(p, items) ==
    SeqSum([i \in DOMAIN items |->
        IF items[i].concern \in p.target_concerns THEN (items[i].score * 15) \div 10
        ELSE IF IsSubstr(items[i].concern, p.benefits) THEN items[i].score
        ELSE IF IsSubstr(items[i].concern, p.category)
        THEN (items[i].score * 8) \div 10
        ELSE 0])

HasConcern(items, names) == \E i \in DOMAIN items : items[i].concern \in names

\* lines 319-336
CategoryBonus(p, items) ==
    IF \/ HasConcern(items, {GanZao, QueShui})
          /\ (IsSubstr(BaoShi, p.category) \/ IsSubstr(BuShui, p.benefits))
       \/ HasConcern(items, {ZhouWen, LaoHua})
          /\ (IsSubstr(<<"kang", "zhou">>, p.category)
              \/ IsSubstr(<<"kang", "lao">>, p.benefits))
       \/ HasConcern(items, {MinGan})
          /\ (IsSubstr(MinGan, p.category) \/ IsSubstr(<<"wen", "he">>, p.benefits))
    THEN 800 ELSE 0

\* lines 338-345
SpecialBonus(p, up) ==
    IF up.kind = "dict" /\ up.special_needs /\ p.special_features THEN 500 ELSE 0

\* An element of a returned list: a catalog product with its match_score
\* (kind "product"), or one of the three placeholder dicts.
Entry(p, score) == [kind |-> "product", p |-> p, match_score |-> score]

Placeholder(kind) ==
    [kind |-> kind, p |-> Product(<<>>, <<>>, <<>>, {}, <<>>, <<>>, FALSE),
     match_score |-> 0]

\* lines 358-360: a total below -50.0 is raised to -50.0
Clamp(total) == IF total < ScoreFloor THEN ScoreFloor ELSE total

\* lines 226-233, 246-253 (the veto returns at once) and 362-369
Scored(p, score) == [product |-> Entry(p, score), score |-> score]

\* lines 272-356: the sum of the rules after the gender rule, with the draws
RestOfScore(p, sc, up, jit, gender_score) ==
    Clamp((gender_score + AgeScore(p, up) + ProblemScore(p, sc.items)
           + CategoryBonus(p, sc.items) + SpecialBonus(p, up) + jit.micro)
          * jit.factor)

FromGender(p, sc, up, jit, g) ==
    IF g.veto THEN Scored(p, VetoScore)
    ELSE Scored(p, RestOfScore(p, sc, up, jit, g.score))

\* lines 118-369.  The result is the returned dict: the product with its
\* match_score, and the score.
_calculate_match_score(p, sc, up, jit) ==
    FromGender(p, sc, up, jit, GenderRule(p, up))

(***************************************************************************)
(* RecommendationEngine._match_products                                    *)
(***************************************************************************)
TopK == 3                   \* lines 463, 471, 512, 517, 569
DiversityCap == 2           \* lines 498, 502

\* lines 417-430 and 551-564: the gender gate of a pass.  The user's gender
\* is read again, from the analysis text alone; a female user's gate skips
\* the products holding one of maleWords, a male user's one of femaleWords.
GenderGate(sa, text, maleWords, femaleWords) ==
    IF AnyIn(SecondCheckFemaleWords, sa) THEN AnyIn(maleWords, text)
    ELSE IF AnyIn(SecondCheckMaleWords, sa) THEN AnyIn(femaleWords, text)
    ELSE FALSE

\* lines 417-430: TRUE iff the second gender check of the strict pass skips p
SecondCheckSkips(p, up) ==
    GenderGate(SkinAnalysisMatch(up), ProductText(p), MaleProductWords,
               FemaleProductWords)

\* lines 551-564: TRUE iff the relaxed pass skips p
RelaxedCheckSkips(p, up) ==
    GenderGate(SkinAnalysisMatch(up), ProductText(p), RelaxedMaleWords,
               RelaxedFemaleWords)

\* a strict pass that drops nothing
NeverBelow(score) == FALSE

\* line 399: the strict pass drops a result whose score is below -50.0
BelowFloor(score) == score < ScoreFloor

\* The subsequence of `entries` at the positions where `flags` is TRUE.
Keep(flags, entries) ==
    LET f[i \in 0..Len(entries)] ==
            IF i = 0 THEN <<>>
            ELSE IF flags[i] THEN Append(f[i - 1], entries[i]) ELSE f[i - 1]
    IN f[Len(entries)]

\* lines 391-396, 531-535: match_info of every product, jits[i] being the
\* draws of the i-th call
MatchInfos(sc, up, catalog, jits) ==
    [i \in DOMAIN catalog |-> _calculate_match_score(catalog[i], sc, up, jits[i])]

\* lines 398-432: what the strict pass keeps of the match infos
StrictKeep(info, up, catalog) ==
    Keep([i \in DOMAIN catalog |->
             ~BelowFloor(info[i].score) /\ ~SecondCheckSkips(catalog[i], up)],
         [i \in DOMAIN catalog |-> info[i].product])

\* lines 537-566: what the relaxed pass keeps; the score is not looked at
RelaxedKeep(info, up, catalog) ==
    Keep([i \in DOMAIN catalog |-> ~RelaxedCheckSkips(catalog[i], up)],
         [i \in DOMAIN catalog |-> info[i].product])

\* lines 390-432: the list `matched`
StrictPass(sc, up, catalog, jits) ==
    StrictKeep(MatchInfos(sc, up, catalog, jits), up, catalog)

\* lines 529-566: the list `fallback_matched`
RelaxedPass(sc, up, catalog, jits) ==
    RelaxedKeep(MatchInfos(sc, up, catalog, jits), up, catalog)

\* sorted(entries, key=match_score, reverse=True): stable
SortedDesc(entries) ==
    [k \in DOMAIN entries |->
        entries[CHOOSE i \in DOMAIN entries :
            k = 1 + Cardinality({j \in DOMAIN entries :
                    \/ entries[j].match_score > entries[i].match_score
                    \/ (entries[j].match_score = entries[i].match_score /\ j < i)})]]

\* line 447: round(match_score, 1), in tenths.  (A draw exactly on a bucket
\* boundary has probability zero in the program; here it rounds up.)
Bucket(score) == (score + 5000) \div 10000

FirstHit(keywords, hits) ==
    IF hits = {} THEN None
    ELSE keywords[CHOOSE k \in hits : \A j \in hits : k <= j]

\* lines 478-483: the first brand keyword found in the name, or None
CurrentBrand(name) ==
    FirstHit(brand_keywords,
             {k \in DOMAIN brand_keywords : IsSubstr(brand_keywords[k], name)})

\* lines 486-491: the first category keyword found in the type or the name
CurrentCategory(type, name) ==
    FirstHit(category_keywords,
             {k \in DOMAIN category_keywords :
                 \/ IsSubstr(category_keywords[k], type)
                 \/ IsSubstr(category_keywords[k], name)})

\* line 498: the number of selected items whose name holds a brand keyword
CountBranded(result) ==
    Cardinality({i \in DOMAIN result :
        \E k \in DOMAIN brand_keywords :
            IsSubstr(brand_keywords[k], Lower(Str(result[i].p.product_name)))})

\* line 502: the number of selected items whose type or name holds a
\* category keyword
CountCategorized(result) ==
    Cardinality({i \in DOMAIN result :
        \E k \in DOMAIN category_keywords :
            \/ IsSubstr(category_keywords[k], Lower(Str(result[i].p.product_type)))
            \/ IsSubstr(category_keywords[k], Lower(Str(result[i].p.product_name)))})

\* lines 498, 502: two selected items of that kind are the cap
\* a cap that lets a third item through
CapReachedAtThree(count) == count >= DiversityCap + 1

CapReached(count) == count >= DiversityCap

\* lines 493-509: candidate e with brand b and category c is skipped or
\* appended.  st is [res, brands, cats, raised]: diverse_result,
\* selected_brands, selected_categories, and whether an exception was raised.
Select(st, e, b, c) ==
    IF b \in st.brands /\ c \in st.cats THEN st
    ELSE IF b # None /\ CapReached(CountBranded(st.res)) THEN st
    ELSE IF c # None /\ CapReached(CountCategorized(st.res)) THEN st
    ELSE [res |-> Append(st.res, e),
          brands |-> IF b # None THEN st.brands \cup {b} ELSE st.brands,
          cats |-> IF c # None THEN st.cats \cup {c} ELSE st.cats,
          raised |-> FALSE]

\* lines 470-509: one iteration of the inner loop on candidate e.  Lines
\* 474-475 call .lower() on the name and the type: a None there raises.
DiverseStep(st, e) ==
    IF st.raised \/ Len(st.res) >= TopK THEN st
    ELSE IF LowerRaises(e.p.product_name) \/ LowerRaises(e.p.product_type)
    THEN [st EXCEPT !.raised = TRUE]
    ELSE Select(st, e, CurrentBrand(Lower(e.p.product_name)),
                CurrentCategory(Lower(e.p.product_type), Lower(e.p.product_name)))

\* the candidates shuffled as one group, whatever their scores
AnyOrder(sorted_matched) == Perms(DOMAIN sorted_matched)

\* lines 444-468: the orders in which the two nested loops can visit the
\* candidates: score groups from the highest to the lowest, each group
\* shuffled.
VisitOrders(sorted_matched) ==
    {o \in Perms(DOMAIN sorted_matched) :
        \A i, j \in DOMAIN o :
            i < j => Bucket(sorted_matched[o[i]].match_score)
                        >= Bucket(sorted_matched[o[j]].match_score)}

\* The two loops run over the candidates in the order `order`.
DiverseLoop(sorted_matched, order) ==
    LET f[i \in 0..Len(order)] ==
            IF i = 0
            THEN [res |-> <<>>, brands |-> {}, cats |-> {}, raised |-> FALSE]
            ELSE DiverseStep(f[i - 1], sorted_matched[order[i]])
    IN f[Len(order)]

\* lines 440-509: every state the diversity pass can end in, over all
\* shuffles of the score groups
DiversePass(sorted_matched) ==
    {DiverseLoop(sorted_matched, order) : order \in VisitOrders(sorted_matched)}

\* line 513: [p for p in sorted_matched if p not in diverse_result]; `in`
\* compares the dicts by value
Remaining(sorted_matched, diverse) ==
    SelectSeq(sorted_matched,
              LAMBDA e : \A i \in DOMAIN diverse : diverse[i] # e)

Min(a, b) == IF a < b THEN a ELSE b

\* lines 514-519: diverse_result filled up from the shuffled remaining list
FillFrom(diverse, rest) ==
    {diverse \o [i \in 1..Min(Len(rest), TopK - Len(diverse)) |-> rest[order[i]]] :
        order \in Perms(DOMAIN rest)}

\* lines 511-519: every list the backfill can produce from diverse_result
Backfill(sorted_matched, diverse) ==
    IF Len(diverse) >= TopK THEN {diverse}
    ELSE FillFrom(diverse, Remaining(sorted_matched, diverse))

\* line 569: sorted(fallback_matched, ...)[:3]
FirstK(s) == SubSeq(s, 1, Min(Len(s), TopK))

Outcome(result, path, matched, diverse) ==
    [result |-> result, path |-> path, matched |-> matched, diverse |-> diverse]

\* lines 505-524 and 580-583: the lists returned after the diversity pass
\* ended in state st; an exception raised in the loop is caught and gives []
AfterDiverse(matched, sorted_matched, st) ==
    IF st.raised THEN {Outcome(<<>>, "exception", matched, st.res)}
    ELSE {Outcome(r, "strict", matched, st.res) :
            r \in Backfill(sorted_matched, st.res)}

\* lines 435-524
StrictOutcomes(matched, sorted_matched) ==
    UNION {AfterDiverse(matched, sorted_matched, st) :
              st \in DiversePass(sorted_matched)}

\* lines 568-578
RelaxedOutcome(fallback_matched) ==
    IF fallback_matched # <<>>
    THEN Outcome(FirstK(SortedDesc(fallback_matched)), "relaxed",
                 fallback_matched, <<>>)
    ELSE Outcome(<<Placeholder("no_match")>>, "placeholder", <<>>, <<>>)

\* lines 525-578: the relaxed pass scores every product again
RelaxedOutcomes(sc, up, catalog) ==
    {RelaxedOutcome(RelaxedPass(sc, up, catalog, jits2)) :
        jits2 \in [DOMAIN catalog -> JitterPool]}

\* the relaxed pass run whatever the strict pass kept
AlwaysRelaxed(sc, up, catalog, matched) == RelaxedOutcomes(sc, up, catalog)

\* lines 435, 525: the strict result if anything matched, else the relaxed pass
FromMatched(sc, up, catalog, matched) ==
    IF matched # <<>> THEN StrictOutcomes(matched, SortedDesc(matched))
    ELSE RelaxedOutcomes(sc, up, catalog)

\* lines 370-583.  Every outcome of one call: the returned list, and a trace
\* of the path taken (matched, the diversity pass before backfill).
_match_products(sc, up, catalog) ==
    UNION {FromMatched(sc, up, catalog, StrictPass(sc, up, catalog, jits)) :
              jits \in [DOMAIN catalog -> JitterPool]}

(***************************************************************************)
(* RecommendationEngine.generate_recommendations                           *)
(***************************************************************************)
NoTrace == [path |-> "none", matched |-> <<>>, diverse |-> <<>>]

Returned(result, trace) == [raised |-> FALSE, result |-> result, trace |-> trace]

\* lines 67-74: every exception raised in the body is caught and answered
\* with the placeholder
HandleException == Returned(<<Placeholder("error")>>, NoTrace)

\* the result of _match_products handed on as it is
AsReturned(matched_products) == matched_products

\* lines 56-65: a falsy result of _match_products becomes the placeholder
OrPlaceholder(matched_products) ==
    IF matched_products # <<>> THEN matched_products
    ELSE <<Placeholder("no_match")>>

\* lines 22-74: every way one call can end
GenerateOutcomes(sc, up, catalog) ==
    IF sc.kind # "dict" \/ sc.items = <<>>
    THEN {HandleException}                \* lines 29-30: ValueError
    ELSE IF catalog = <<>>
    THEN {Returned(<<Placeholder("no_products")>>, NoTrace)}   \* lines 39-45
    ELSE {Returned(OrPlaceholder(o.result),
                   [path |-> o.path, matched |-> o.matched, diverse |-> o.diverse]) :
             o \in _match_products(sc, up, catalog)}

\* One call of generate_recommendations with the arguments held in the state.
generate_recommendations ==
    /\ rec_pc = "called"
    /\ \E o \in GenerateOutcomes(skin_conditions, user_profile, product_info) :
        /\ rec_result' = o.result
        /\ rec_raised' = o.raised
        /\ rec_trace' = o.trace
    /\ rec_pc' = "returned"
    /\ UNCHANGED <<skin_conditions, user_profile, product_info>>

ValidConditions(sc) == sc.kind = "dict" /\ sc.items # <<>>

\* The arguments of the call: every profile with every catalog; the calls
\* with skin conditions that are rejected at once, and those with a negative
\* severity, take the short catalogs.
RecInit ==
    /\ skin_conditions \in ConditionPool
    /\ user_profile \in ProfilePool
    /\ product_info \in Catalogs \cup LongCatalogs
    /\ ValidConditions(skin_conditions) \/ Len(product_info) <= 1
    /\ skin_conditions = NegativeSeverity => Len(product_info) <= 2
    /\ rec_pc = "called"
    /\ rec_result = <<>>
    /\ rec_raised = FALSE
    /\ rec_trace = NoTrace

(***************************************************************************)
(* KnowledgeManager (knowledge_base.py)                                    *)
(*                                                                         *)
(* JSON.  A JSON value is a record tagged by t: a string (s = its text),   *)
(* a list of strings, an object (its key/value entries in file order) or   *)
(* null.  Object keys, category names and metadata values are words the    *)
(* code only compares whole, so each is one token.  A Python dict is the   *)
(* sequence of its entries in insertion order.                             *)
(*                                                                         *)
(* Vectors.  An embedding is [dim, val]: its length and one coordinate;    *)
(* the L2 distance of two vectors is the squared difference of their       *)
(* coordinates.  The all-zero vector has val = 0.  The timestamp field of  *)
(* a document (line 84) is left out: search and the index never read it.   *)
(***************************************************************************)
JStr(s) == [t |-> "str", s |-> s]
JList(list) == [t |-> "list", list |-> list]
JObj(entries) == [t |-> "dict", entries |-> entries]
JNull == [t |-> "null"]
KV(k, v) == [k |-> k, v |-> v]

\* dict.get(key, default)
Get(data, key, default) ==
    LET hits == {i \in DOMAIN data.entries : data.entries[i].k = key}
    IN IF hits = {} THEN default ELSE data.entries[CHOOSE i \in hits : TRUE].v

Concat(parts) ==
    LET f[i \in 0..Len(parts)] == IF i = 0 THEN <<>> ELSE f[i - 1] \o parts[i]
    IN f[Len(parts)]

\* sep.join(parts)
Join(sep, parts) ==
    LET f[i \in 0..Len(parts)] ==
            IF i = 0 THEN <<>>
            ELSE IF i = 1 THEN parts[1]
            ELSE f[i - 1] \o sep \o parts[i]
    IN f[Len(parts)]

\* lines 94-107, flatten, for a value that holds no further object
FlattenLeaf(v) ==
    IF v.t = "str" THEN <<v.s>>
    ELSE IF v.t = "list" THEN v.list
    ELSE <<>>

\* lines 94-107, flatten, for a value of the top-level object
FlattenValue(v) ==
    IF v.t = "dict"
    THEN Concat([i \in DOMAIN v.entries |-> FlattenLeaf(v.entries[i].v)])
    ELSE FlattenLeaf(v)

\* lines 93-110
_extract_content(data) ==
    IF data.t = "dict"
    THEN Join(<<" ">>, Concat([i \in DOMAIN data.entries |->
                                   FlattenValue(data.entries[i].v)]))
    ELSE Join(<<" ">>, FlattenLeaf(data))

SkinConditions == <<"skin_conditions">>
Products == <<"products">>
SkincareRules == <<"skincare_rules">>
Unknown == <<"unknown">>

\* line 117: list(d.keys()) of a dict
KeysList(levels) == JList([i \in DOMAIN levels.entries |-> <<levels.entries[i].k>>])

SkinMetadata(data, levels) ==
    <<KV("condition_type", Get(data, "condition", JNull)),
      KV("severity", KeysList(levels)),
      KV("related_conditions", Get(data, "related_conditions", JList(<<>>)))>>

ProductMetadata(data) ==
    <<KV("product_type", Get(data, "category", JNull)),
      KV("suitable_for", Get(data, "suitable_for", JList(<<>>))),
      KV("ingredients", Get(data, "ingredients", JList(<<>>)))>>

\* lines 112-126: [raised, metadata].  data.get on a value that is no dict,
\* and .keys() on severity_levels that is no dict, raise AttributeError.
_extract_metadata(data, category) ==
    LET base == <<KV("category", JStr(category))>> IN
    IF category = SkinConditions
    THEN IF data.t # "dict" \/ Get(data, "severity_levels", JObj(<<>>)).t # "dict"
         THEN [raised |-> TRUE, metadata |-> <<>>]
         ELSE [raised |-> FALSE,
               metadata |-> base \o SkinMetadata(data, Get(data, "severity_levels", JObj(<<>>)))]
    ELSE IF category = Products
    THEN IF data.t # "dict"
         THEN [raised |-> TRUE, metadata |-> <<>>]
         ELSE [raised |-> FALSE, metadata |-> base \o ProductMetadata(data)]
    ELSE [raised |-> FALSE, metadata |-> base]

\* f"{v}" of a metadata or filter value
Fmt(v) ==
    IF v.t = "str" THEN v.s
    ELSE IF v.t = "null" THEN <<"N", "o", "n", "e">>
    ELSE <<"<object>">>

\* a key that forgets the value
KeyOnly(key, v) == <<key, ":">>

\* lines 91, 217, 223: f"{key}:{v}"
MetaKey(key, v) == <<key, ":">> \o Fmt(v)

\* lines 89, 221: values = value if isinstance(value, list) else [value]
ValuesOf(value) ==
    IF value.t = "list" THEN [i \in DOMAIN value.list |-> JStr(value.list[i])]
    ELSE <<value>>

EntryKeys(e, values) == [i \in DOMAIN values |-> MetaKey(e.k, values[i])]

\* lines 88-91 and 220-223: the index keys of a dict of metadata or filters
KeysOf(entries) ==
    Concat([i \in DOMAIN entries |-> EntryKeys(entries[i], ValuesOf(entries[i].v))])

\* dict lookup in a sequence of [key, value] entries
Has(dict, key) == \E i \in DOMAIN dict : dict[i].key = key
Lookup(dict, key) == dict[CHOOSE i \in DOMAIN dict : dict[i].key = key].value

\* self.metadata_index[key].append(pos) on the defaultdict(list)
IndexAppend(index, key, pos) ==
    IF Has(index, key)
    THEN [i \in DOMAIN index |->
            IF index[i].key = key
            THEN [key |-> key, value |-> Append(index[i].value, pos)]
            ELSE index[i]]
    ELSE Append(index, [key |-> key, value |-> <<pos>>])

IndexAll(index, keys, pos) ==
    LET f[i \in 0..Len(keys)] ==
            IF i = 0 THEN index ELSE IndexAppend(f[i - 1], keys[i], pos)
    IN f[Len(keys)]

Doc(content, metadata, category, source) ==
    [content |-> content, metadata |-> metadata, category |-> category,
     source |-> source]

KmState(docs, index, raised) ==
    [documents |-> docs, metadata_index |-> index, raised |-> raised]

Processed(st, data, category, md) ==
    IF md.raised \/ data.t # "dict" THEN KmState(st.documents, st.metadata_index, TRUE)
    ELSE KmState(Append(st.documents,
                        Doc(_extract_content(data), md.metadata, category,
                            Get(data, "source", JStr(Unknown)))),
                 IndexAll(st.metadata_index, KeysOf(md.metadata), Len(st.documents)),
                 FALSE)

\* lines 75-91: st with data appended and indexed, or raised with st as it was
_process_document(st, data, category) ==
    Processed(st, data, category, _extract_metadata(data, category))

EmbeddingDim == 768

\* the width of a provider that does not answer with 768 numbers per text
OtherDim == EmbeddingDim + 256

Vec(dim, val) == [dim |-> dim, val |-> val]

\* The coordinate the provider answers for a text.
ProviderVal(text) == Len(text)

\* What one call of the provider gives for the texts of one batch, after the
\* retries of predict: "vectors" (one vector of 768 per text), "other_dim"
\* (one vector of 1024 per text), "one_vector" (a single vector whatever the
\* number of texts), "ragged" (vectors of unequal lengths) and "failed"
\* (every attempt failed).
Answers == {"vectors", "other_dim", "one_vector", "ragged", "failed"}

\* lines 57-158 of embedding_model.py for at most batch_size texts: the list
\* predict returns, [ragged, vectors]
predict(texts, answer) ==
    [ragged |-> answer = "ragged",
     vectors |->
        CASE answer = "vectors" ->
                [i \in DOMAIN texts |-> Vec(EmbeddingDim, ProviderVal(texts[i]))]
          [] answer = "other_dim" ->
                [i \in DOMAIN texts |-> Vec(OtherDim, ProviderVal(texts[i]))]
          [] answer = "one_vector" -> <<Vec(EmbeddingDim, ProviderVal(texts[1]))>>
          [] answer = "ragged" ->
                <<Vec(EmbeddingDim, ProviderVal(texts[1])), Vec(OtherDim, 0)>>
          [] OTHER -> [i \in DOMAIN texts |-> Vec(EmbeddingDim, 0)]]

\* self.vector_index: None, or a faiss.IndexFlatL2(d) holding vecs
NoIndex == [is_none |-> TRUE, d |-> 0, vecs |-> <<>>]
IndexFlatL2(d, vecs) == [is_none |-> FALSE, d |-> d, vecs |-> vecs]

\* self.embeddings_matrix: None, or an array of shape (rows, d)
NoMatrix == [is_none |-> TRUE, rows |-> 0, d |-> 0]
Matrix(rows, d) == [is_none |-> FALSE, rows |-> rows, d |-> d]

Built(index, matrix) == [vector_index |-> index, embeddings_matrix |-> matrix]

\* no index at all for an empty corpus
BuildNothing == Built(NoIndex, NoMatrix)

\* lines 131-136
BuildEmpty == Built(IndexFlatL2(EmbeddingDim, <<>>), Matrix(0, EmbeddingDim))

\* lines 152-184.  np.array over rows of unequal lengths raises (line 160),
\* and the handler of line 181 leaves a zero matrix and an index without
\* vectors; otherwise the index takes the width of the rows it was given.
BuildFrom(emb, n) ==
    IF emb.ragged
    THEN Built(IndexFlatL2(EmbeddingDim, <<>>), Matrix(n, EmbeddingDim))
    ELSE Built(IndexFlatL2(emb.vectors[1].dim,
                           [i \in DOMAIN emb.vectors |-> emb.vectors[i].val]),
               Matrix(Len(emb.vectors), emb.vectors[1].dim))

Contents(docs) == [i \in DOMAIN docs |-> docs[i].content]

\* lines 128-190
_build_index(docs, answer) ==
    IF docs = <<>> THEN BuildEmpty
    ELSE BuildFrom(predict(Contents(docs), answer), Len(docs))

\* repr of a str, a list of str, a dict of filters, and str(None)
ReprStr(s) == <<"'">> \o s \o <<"'">>
ReprValue(v) ==
    IF v.t = "list"
    THEN <<"[">> \o Join(<<",", " ">>, [i \in DOMAIN v.list |-> ReprStr(v.list[i])]) \o <<"]">>
    ELSE ReprStr(v.s)
ReprEntry(e) == ReprStr(<<e.k>>) \o <<":", " ">> \o ReprValue(e.v)
ReprFilters(filters) ==
    IF filters.is_none THEN <<"N", "o", "n", "e">>
    ELSE <<"{">> \o Join(<<",", " ">>, [i \in DOMAIN filters.entries |->
                                          ReprEntry(filters.entries[i])]) \o <<"}">>

\* line 205: f"{query}:{category}:{str(metadata_filters)}:{top_k}"
CacheKey(query, category, filters, top_k) ==
    query \o <<":">> \o Str(category) \o <<":">> \o ReprFilters(filters)
          \o <<":">> \o <<ToString(top_k)>>

Range(s) == {s[i] : i \in DOMAIN s}

\* set(self.metadata_index.get(key, []))
Positions(index, key) == IF Has(index, key) THEN Range(Lookup(index, key)) ELSE {}

NarrowBy(index, keys, start) ==
    LET f[i \in 0..Len(keys)] ==
            IF i = 0 THEN start ELSE f[i - 1] \cap Positions(index, keys[i])
    IN f[Len(keys)]

\* lines 216-217: `if category:` and the category key
CategoryKeys(category) ==
    IF category = None \/ category = <<>> THEN <<>>
    ELSE <<MetaKey("category", JStr(category))>>

\* lines 219-223: `if metadata_filters:` and the keys of its entries
FilterKeys(filters) ==
    IF filters.is_none THEN <<>> ELSE KeysOf(filters.entries)

\* lines 215-223: the positions of the documents that pass every filter
FilteredIndices(docs, index, category, filters) ==
    NarrowBy(index, CategoryKeys(category) \o FilterKeys(filters),
             0..(Len(docs) - 1))

Dist(a, b) == (a - b) * (a - b)

\* vector_index.search(q, k): every list of the k nearest stored positions in
\* order of distance faiss may return (equal distances in any order); the -1
\* padding of a short index is dropped at once, as line 241 drops it.
Nearest(vecs, q, k) ==
    {SubSeq(o, 1, Min(k, Len(vecs))) :
        o \in {p \in Perms(0..(Len(vecs) - 1)) :
                 \A i, j \in DOMAIN p :
                    i < j => Dist(vecs[p[i] + 1], q) <= Dist(vecs[p[j] + 1], q)}}

\* the distance itself handed out as the score
AsDistance(dist) == dist

\* line 243: float(1 / (1 + dist)), in millionths
Similarity(dist) == 1000000 \div (1 + dist)

Found(doc, score) ==
    [content |-> doc.content, metadata |-> doc.metadata, category |-> doc.category,
     source |-> doc.source, similarity_score |-> score]

\* lines 240-245: the neighbours that are documents and pass the filters
Collect(docs, vecs, q, nbrs, filtered) ==
    LET f[i \in 0..Len(nbrs)] ==
            IF i = 0 THEN <<>>
            ELSE IF nbrs[i] < Len(docs) /\ nbrs[i] \in filtered
                    /\ \A j \in 1..(i - 1) : nbrs[j] # nbrs[i]
                 THEN Append(f[i - 1],
                             Found(docs[nbrs[i] + 1],
                                   Similarity(Dist(vecs[nbrs[i] + 1], q))))
                 ELSE f[i - 1]
    IN f[Len(nbrs)]

\* line 247: sorted(results, key=similarity_score, reverse=True), stable
BySimilarity(results) ==
    LET rank(i) == Cardinality({j \in DOMAIN results :
                        \/ results[j].similarity_score > results[i].similarity_score
                        \/ /\ results[j].similarity_score = results[i].similarity_score
                           /\ j < i})
    IN [r \in DOMAIN results |-> results[CHOOSE i \in DOMAIN results : rank(i) = r - 1]]

\* the whole list, not cut
Whole(s, n) == s

FirstN(s, n) == SubSeq(s, 1, Min(n, Len(s)))

\* self.cache[key] = value
CachePut(c, key, value) ==
    IF Has(c, key)
    THEN [i \in DOMAIN c |-> IF c[i].key = key THEN [key |-> key, value |-> value] ELSE c[i]]
    ELSE Append(c, [key |-> key, value |-> value])

Answered(result, c, hit) == [result |-> result, cache |-> c, hit |-> hit]

\* lines 247-253
Finish(results, top_k, c, key, use_cache) ==
    Answered(FirstN(BySimilarity(results), top_k),
             IF use_cache THEN CachePut(c, key, FirstN(BySimilarity(results), top_k)) ELSE c,
             FALSE)

\* lines 225-253: the query vector, the index search, the ranking.  A query
\* vector of another width than the index, and k < 1, make faiss raise; the
\* handler of line 254 returns [] and the cache is not written.
Ranked(docs, index, filtered, qvec, top_k, c, key, use_cache) ==
    IF qvec.dim # index.d \/ Min(top_k * 2, Len(docs)) < 1
    THEN {Answered(<<>>, c, FALSE)}
    ELSE {Finish(Collect(docs, index.vecs, qvec.val, nbrs, filtered),
                 top_k, c, key, use_cache) :
            nbrs \in Nearest(index.vecs, qvec.val, Min(top_k * 2, Len(docs)))}

\* lines 199-256: every way one call of search can end, [result, cache, hit]
SearchOutcomes(docs, mindex, vindex, c, query, category, filters, top_k, use_cache, answer) ==
    IF use_cache /\ Has(c, CacheKey(query, category, filters, top_k))
    THEN {Answered(Lookup(c, CacheKey(query, category, filters, top_k)), c, TRUE)}
    ELSE IF docs = <<>> \/ vindex.is_none
    THEN {Answered(<<>>, c, FALSE)}
    ELSE Ranked(docs, vindex, FilteredIndices(docs, mindex, category, filters),
                predict(<<query>>, answer).vectors[1], top_k, c,
                CacheKey(query, category, filters, top_k), use_cache)

(***************************************************************************)
(* The documents, files and calls the KnowledgeManager is exercised with   *)
(***************************************************************************)
Mild == <<"mild">>
Severe == <<"severe">>
Dry == <<"dry">>

dAcne ==
    JObj(<<KV("category", JStr(SkinConditions)),
           KV("condition", JStr(<<"acne">>)),
           KV("severity_levels", JObj(<<KV("mild", JStr(<<"few">>)),
                                        KV("severe", JStr(<<"many">>))>>)),
           KV("related_conditions", JList(<<<<"oily">>>>))>>)

dEczema ==
    JObj(<<KV("category", JStr(SkinConditions)),
           KV("condition", JStr(<<"eczema">>)),
           KV("severity_levels", JObj(<<KV("severe", JStr(<<"itchy">>))>>))>>)

dCream ==
    JObj(<<KV("category", JStr(Products)),
           KV("suitable_for", JList(<<Dry>>)),
           KV("source", JStr(<<"catalog">>))>>)

\* no category: update_knowledge files it under "unknown"
dTip == JObj(<<KV("tip", JStr(<<"sunscreen">>))>>)

\* severity_levels is a list, not an object
dBadLevels ==
    JObj(<<KV("category", JStr(SkinConditions)),
           KV("severity_levels", JList(<<Mild>>))>>)

\* a document that is a JSON string, not an object
dText == JStr(<<"free", "text">>)

RawPool == {dAcne, dEczema, dCream, dTip, dBadLevels, dText}

MaxNew == 2
NewDocuments == UNION {[1..n -> RawPool] : n \in 0..MaxNew}

\* a file of the knowledge directory: the category of its folder, whether
\* json.load succeeds, the value it holds
File(category, readable, data) ==
    [category |-> category, readable |-> readable, data |-> data]

DiskPool ==
    {<<>>,
     <<File(SkinConditions, FALSE, JNull), File(Products, TRUE, dText)>>,
     <<File(SkinConditions, TRUE, dAcne), File(Products, TRUE, dCream)>>,
     <<File(SkinConditions, TRUE, dEczema), File(SkinConditions, TRUE, dBadLevels),
       File(SkincareRules, TRUE, dTip)>>}

NoFilters == [is_none |-> TRUE, entries |-> <<>>]
Filters(entries) == [is_none |-> FALSE, entries |-> entries]

QueryPool == {<<"dou", "dou">>, <<"wo", "lian", "shang", "zhang", "dou", "dou", "le">>}
\* a category whose text is the word None, as str(None) gives it
NoneText == <<"N", "o", "n", "e">>
CategoryPool == {None, SkinConditions, Products, NoneText}
FilterPool ==
    {NoFilters,
     Filters(<<KV("severity", JStr(Mild))>>),
     Filters(<<KV("severity", JList(<<Mild, Severe>>))>>)}
MaxTopK == 2
QueryAnswers == {"vectors", "other_dim", "failed"}

MaxDocs == 3
KmMaxOps == 2

NoCall == [op |-> "none", raised |-> FALSE, result |-> <<>>, args |-> <<>>]
Call(op, raised, result, args) ==
    [op |-> op, raised |-> raised, result |-> result, args |-> args]

(***************************************************************************)
(* KnowledgeManager: initialize, search, update_knowledge                  *)
(***************************************************************************)
\* lines 59-65: one file; a failure of json.load or of _process_document is
\* logged and the file is skipped
LoadFile(st, file) ==
    IF ~file.readable THEN st
    ELSE IF _process_document(st, file.data, file.category).raised THEN st
    ELSE _process_document(st, file.data, file.category)

\* lines 43-73
_load_knowledge(files) ==
    LET f[i \in 0..Len(files)] ==
            IF i = 0 THEN KmState(<<>>, <<>>, FALSE) ELSE LoadFile(f[i - 1], files[i])
    IN f[Len(files)]

Loaded(st, built) ==
    /\ documents' = st.documents
    /\ metadata_index' = st.metadata_index
    /\ vector_index' = built.vector_index
    /\ embeddings_matrix' = built.embeddings_matrix

\* a flag that is never found set
NeverSet(flag) == FALSE

\* line 33: self._initialized as initialize reads it
IsInitialized(flag) == flag

\* lines 30-41.  The constructor makes the first call (line 28); a later
\* call finds _initialized set and does nothing.
initialize ==
    /\ ~initialized \/ km_ops < KmMaxOps
    /\ IF ~IsInitialized(initialized)
       THEN \E answer \in Answers :
               Loaded(_load_knowledge(disk),
                      _build_index(_load_knowledge(disk).documents, answer))
       ELSE UNCHANGED <<documents, metadata_index, vector_index, embeddings_matrix>>
    /\ km_ops' = IF initialized THEN km_ops + 1 ELSE km_ops
    /\ initialized' = TRUE
    /\ km_last' = Call("initialize", FALSE, <<>>, <<>>)
    /\ UNCHANGED <<cache, disk, recVars, emVars, ragVars, upd>>

\* what a reader of self.documents and self.vector_index finds
Snapshot(docs, index) == [documents |-> Len(docs), vectors |-> Len(index.vecs),
                          has_index |-> ~index.is_none]

\* The arguments of a call of search, and what the call met: the provider's
\* answer for the query, whether the cache answered, the position of an
\* update_knowledge running in another thread, the corpus and index it read.
SearchArgs(query, category, filters, top_k, use_cache, answer, hit) ==
    [query |-> query, category |-> category, metadata_filters |-> filters,
     top_k |-> top_k, use_cache |-> use_cache, answer |-> answer, hit |-> hit,
     during |-> upd.pc, seen |-> Snapshot(documents, vector_index)]

\* lines 192-256
search ==
    /\ initialized
    /\ km_ops < KmMaxOps
    /\ \E query \in QueryPool, category \in CategoryPool, filters \in FilterPool,
          top_k \in 1..MaxTopK, use_cache \in BOOLEAN, answer \in QueryAnswers :
          \E o \in SearchOutcomes(documents, metadata_index, vector_index, cache,
                                  query, category, filters, top_k, use_cache, answer) :
             /\ cache' = o.cache
             /\ km_last' = Call("search", FALSE, o.result,
                                SearchArgs(query, category, filters, top_k, use_cache,
                                           answer, o.hit))
    /\ km_ops' = km_ops + 1
    /\ UNCHANGED <<documents, metadata_index, vector_index, embeddings_matrix,
                   initialized, disk, recVars, emVars, ragVars, upd>>

\* lines 259-260: the loop over new_documents; doc.get on a document that is
\* no dict, and a failure inside _process_document, end the loop and the call
\* with the documents processed so far already appended
AddDocument(st, doc) ==
    IF st.raised THEN st
    ELSE IF doc.t # "dict" THEN KmState(st.documents, st.metadata_index, TRUE)
    ELSE _process_document(st, doc, Get(doc, "category", JStr(Unknown)).s)

AddDocuments(st, new_documents) ==
    LET f[i \in 0..Len(new_documents)] ==
            IF i = 0 THEN st ELSE AddDocument(f[i - 1], new_documents[i])
    IN f[Len(new_documents)]

Updated(st, new_documents, answer, saved) ==
    /\ documents' = st.documents
    /\ metadata_index' = st.metadata_index
    /\ IF st.raised
       THEN UNCHANGED <<vector_index, embeddings_matrix>>
       ELSE /\ vector_index' = _build_index(st.documents, answer).vector_index
            /\ embeddings_matrix' = _build_index(st.documents, answer).embeddings_matrix
    /\ km_last' = Call("update_knowledge", st.raised, <<>>,
                       [new_documents |-> new_documents,
                        saved |-> ~st.raised /\ saved])

\* an update that empties the cache
Invalidated(c) == <<>>

\* lines 258-262: self.cache is not touched; its entries stay as they are
CacheAfterUpdate(c) == c

\* lines 258-262, with _save_knowledge (lines 264-276), whose failure is
\* logged and changes nothing
update_knowledge ==
    /\ initialized
    /\ km_ops < KmMaxOps
    /\ \E new_documents \in NewDocuments, answer \in Answers, saved \in BOOLEAN :
          /\ Len(documents) + Len(new_documents) <= MaxDocs
          /\ Updated(AddDocuments(KmState(documents, metadata_index, FALSE), new_documents),
                     new_documents, answer, saved)
    /\ cache' = CacheAfterUpdate(cache)
    /\ km_ops' = km_ops + 1
    /\ UNCHANGED <<initialized, disk, recVars, emVars, ragVars, upd>>

(***************************************************************************)
(* EmbeddingModel.predict (embedding_model.py), one HTTP attempt per step  *)
(***************************************************************************)
batch_size == 10
max_retries == 3

\* One vector of the output: its length, whether it is all zeros, and the
\* number of the batch that appended it.
OutVec(dim, zero, batch) == [dim |-> dim, zero |-> zero, batch |-> batch]

\* lines 156-158, appended for batch b
_get_default_embedding(b) == OutVec(EmbeddingDim, TRUE, b)

\* What one HTTP attempt can give: status 200 with one vector of 768 per text,
\* with one vector of 1024 per text, with a single vector; status 200 with a
\* list whose first element is no list, or with a body that is no list;
\* status 429; another status; an exception of requests.post or of .json().
Responses ==
    {"vectors", "other_dim", "one_vector", "flat_list", "not_list",
     "rate_limited", "http_error", "exception"}

\* lines 108-112: status 200, a list, its first element a list
Succeeds(response) == response \in {"vectors", "other_dim", "one_vector"}

\* line 113: the vectors of the response
ResponseVectors(response, size, b) ==
    CASE response = "vectors" -> [i \in 1..size |-> OutVec(EmbeddingDim, FALSE, b)]
      [] response = "other_dim" -> [i \in 1..size |-> OutVec(OtherDim, FALSE, b)]
      [] OTHER -> <<OutVec(EmbeddingDim, FALSE, b)>>

\* nothing appended for a failed batch
NoFallback(size, b) == <<>>

\* lines 119, 123, 128, 134, 141: [default for _ in batch]
Fallback(size, b) == [i \in 1..size |-> _get_default_embedding(b)]

\* no attempt taken for the last one
NeverLast(attempt) == FALSE

\* lines 117, 122, 127, 133, 140
IsLastAttempt(attempt) == attempt = max_retries - 1

\* line 81: len(input_data[i:i + batch_size])
BatchLen(n, i) == Min(batch_size, n - i)

MaxTexts == 12
InputPool ==
    {[is_str |-> TRUE, n |-> 1]} \cup {[is_str |-> FALSE, n |-> n] : n \in 0..MaxTexts}

\* lines 59-78: a str becomes a list of one text; an empty list is answered
\* with [] at once
predict_enter ==
    /\ em_pc = "called"
    /\ em_pc' = IF em_input.n = 0 THEN "returned" ELSE "batch"
    /\ UNCHANGED <<em_input, em_i, em_attempt, em_out, em_log, em_raised,
                   recVars, kmVars, ragVars, upd>>

BatchDone(vectors, attempts, ok) ==
    /\ em_out' = em_out \o vectors
    /\ em_log' = Append(em_log, [size |-> BatchLen(em_input.n, em_i),
                                 attempts |-> attempts, succeeded |-> ok])
    /\ em_i' = em_i + batch_size
    /\ em_attempt' = 0
    /\ em_pc' = IF em_i + batch_size < em_input.n THEN "batch" ELSE "returned"

\* lines 98-143: one attempt of the current batch, and lines 80, 145-146
\* when it is the last of the batch
predict_attempt ==
    /\ em_pc = "batch"
    /\ \E response \in Responses :
          IF Succeeds(response)
          THEN BatchDone(ResponseVectors(response, BatchLen(em_input.n, em_i),
                                         Len(em_log) + 1),
                         em_attempt + 1, TRUE)
          ELSE IF IsLastAttempt(em_attempt)
          THEN BatchDone(Fallback(BatchLen(em_input.n, em_i), Len(em_log) + 1),
                         em_attempt + 1, FALSE)
          ELSE IF em_attempt + 1 >= max_retries   \* line 98: range(max_retries) is used up
          THEN BatchDone(<<>>, em_attempt + 1, FALSE)
          ELSE /\ em_attempt' = em_attempt + 1
               /\ UNCHANGED <<em_i, em_out, em_log, em_pc>>
    /\ UNCHANGED <<em_input, em_raised, recVars, kmVars, ragVars, upd>>

(***************************************************************************)
(* RAGModel (rag_model.py)                                                 *)
(*                                                                         *)
(* A product of the two catalogs is a record of the fields retrieve and    *)
(* _match_score read: product_name and details (strings), suitable_age,    *)
(* suitable_skin_types and benefits (JSON values: null when the key is     *)
(* missing, a string or a list of strings).  A returned dict is an item:   *)
(* its product_name, its benefits and the set of its keys.                 *)
(***************************************************************************)
Sp == <<" ">>
Sui == <<"sui">>
LaoNian == <<"lao", "nian">>
NianZhang == <<"nian", "zhang">>
HuFu == <<"hu4", "fu">>
GanXing == <<"gan", "xing">>
YouXing == <<"you", "xing">>
HunHeXing == <<"hun", "he2", "xing">>
KongYou == <<"kong", "you">>
KangZhou == <<"kang", "zhou">>
JinZhi == <<"jin", "zhi">>
XiuHu == <<"xiu", "hu4">>
XiWen == <<"xi4", "wen">>

\* lines 349-355, in the order of the dict
skin_types ==
    << [type |-> GanXing, keywords |-> {GanXing, GanZao, QueShui}],
       [type |-> YouXing,
        keywords |-> {YouXing, <<"chu1", "you">>, <<"you", "ni">>}],
       [type |-> HunHeXing,
        keywords |-> {HunHeXing, <<"T", "qu", "you">>, <<"hun", "he2">>}],
       [type |-> MinGan,
        keywords |-> {MinGan, <<"guo", "min">>, <<"hong", "zhong3">>}] >>

\* lines 362-373, in the order of the dict
concern_mapping ==
    << [concern |-> BuShui, keywords |-> {BuShui, QueShui, GanZao}],
       [concern |-> BaoShi, keywords |-> {BaoShi, <<"zi", "run">>}],
       [concern |-> KangZhou, keywords |-> {KangZhou, ZhouWen, XiWen}],
       [concern |-> JinZhi,
        keywords |-> {JinZhi, <<"jin", "fu">>, <<"ti", "la">>}],
       [concern |-> <<"mei", "bai">>,
        keywords |-> {<<"mei", "bai">>, <<"ti", "liang">>, <<"an", "chen">>,
                      <<"dan", "ban">>}],
       [concern |-> KongYou,
        keywords |-> {KongYou, <<"you", "zhi1">>, <<"chu1", "you">>}],
       [concern |-> <<"kang", "shuai", "lao">>,
        keywords |-> {<<"kang", "shuai">>, <<"kang", "shuai", "lao">>,
                      <<"shuai", "lao">>}],
       [concern |-> <<"shu", "huan">>,
        keywords |-> {<<"shu", "huan">>, <<"zhen", "jing4">>,
                      <<"hong", "zhong3">>}],
       [concern |-> <<"xiu", "fu4">>,
        keywords |-> {<<"xiu", "fu4">>, XiuHu, <<"shou", "sun">>}] >>

IsDigit(c) == c \in {"0", "1", "2", "3", "4", "5", "6", "7", "8", "9"}

DigitValue(c) ==
    CASE c = "0" -> 0 [] c = "1" -> 1 [] c = "2" -> 2 [] c = "3" -> 3
      [] c = "4" -> 4 [] c = "5" -> 5 [] c = "6" -> 6 [] c = "7" -> 7
      [] c = "8" -> 8 [] OTHER -> 9

\* the last position of the run of digits that holds position i: \d+ is greedy
RunEnd(text, i) ==
    CHOOSE e \in i..Len(text) :
        /\ \A k \in i..e : IsDigit(text[k])
        /\ e = Len(text) \/ ~IsDigit(text[e + 1])

\* int(m.group(1)) for the digits at i..e
IntOf(text, i, e) ==
    LET f[k \in (i - 1)..e] ==
            IF k = i - 1 THEN 0 ELSE f[k - 1] * 10 + DigitValue(text[k])
    IN f[e]

\* the first position from j on that holds no blank: \s*
SkipBlanks(text, j) ==
    CHOOSE k \in j..(Len(text) + 1) :
        /\ \A m \in j..(k - 1) : text[m] = " "
        /\ k = Len(text) + 1 \/ text[k] # " "

\* lines 321-325: what has to follow the digits, from position j on
Follows(text, j, pattern) ==
    CASE pattern = 1 ->
            /\ SkipBlanks(text, j) <= Len(text)
            /\ text[SkipBlanks(text, j)] = "sui"
      [] pattern = 2 -> j <= Len(text) /\ text[j] = "+"
      [] OTHER ->
            /\ j + 2 <= Len(text)
            /\ SubSeq(text, j, j + 2) = <<"sui", "yi", "shang">>

\* the positions where re.search(pattern, text) can start a match
MatchStarts(text, pattern) ==
    {i \in DOMAIN text :
        IsDigit(text[i]) /\ Follows(text, RunEnd(text, i) + 1, pattern)}

Least(S) == CHOOSE i \in S : \A j \in S : i <= j

\* the number captured by the leftmost match
Captured(text, starts) == IntOf(text, Least(starts), RunEnd(text, Least(starts)))

Age(has, age) == [has |-> has, age |-> age]

\* lines 327-331: the first pattern that matches decides
NumericAge(query, s1, s2, s3) ==
    IF s1 # {} THEN Age(TRUE, Captured(query, s1))
    ELSE IF s2 # {} THEN Age(TRUE, Captured(query, s2))
    ELSE IF s3 # {} THEN Age(TRUE, Captured(query, s3))
    ELSE Age(FALSE, 0)

\* an elderly keyword that sets 60 whatever was found before
ElderlyOverrides(query, numeric) ==
    IF AnyIn({LaoNian, NianZhang}, query) THEN Age(TRUE, 60) ELSE numeric

\* lines 333-334: conditions["age"] = conditions.get("age", 60)
ElderlyAge(query, numeric) ==
    IF AnyIn({LaoNian, NianZhang}, query) /\ ~numeric.has THEN Age(TRUE, 60)
    ELSE numeric

\* lines 321-334
ParseAge(query) ==
    ElderlyAge(query, NumericAge(query, MatchStarts(query, 1),
                                 MatchStarts(query, 2), MatchStarts(query, 3)))

\* lines 337-346: "male", "female" or "none" (no key gender)
ParseGender(query) ==
    IF IsSubstr(<<"-">> \o NanShi, query) THEN "female"
    ELSE IF IsSubstr(<<"-">> \o NvShi, query) THEN "male"
    ELSE IF AnyIn({NvShi, NvXing, Nv}, query) THEN "female"
    ELSE IF AnyIn({NanShi, NanXing, Nan}, query) THEN "male"
    ELSE "none"

\* lines 356-360: the first skin type one of whose keywords is in the query
ParseSkinType(query) ==
    LET hits == {k \in DOMAIN skin_types : AnyIn(skin_types[k].keywords, query)}
    IN IF hits = {} THEN None ELSE skin_types[Least(hits)].type

\* lines 375-378
ParseConcerns(query) ==
    Keep([k \in DOMAIN concern_mapping |-> AnyIn(concern_mapping[k].keywords, query)],
         [k \in DOMAIN concern_mapping |-> concern_mapping[k].concern])

RagConditions(age, gender, skin_type, concerns) ==
    [has_age |-> age.has, age |-> age.age, gender |-> gender,
     skin_type |-> skin_type, concerns |-> concerns]

\* lines 316-381
_parse_query(query) ==
    RagConditions(ParseAge(query), ParseGender(query), ParseSkinType(query),
                  ParseConcerns(query))

\* a key the dict does not have
Absent == [t |-> "absent"]

\* A product of a catalog file: its name and details, and the JSON values of
\* the keys suitable_age, suitable_skin_types, benefits, tags, target_concerns
\* and key_ingredients.  The products carry none of the keys name, age,
\* skin_type, effects, ingredients and categories that the code reads as
\* alternatives.
RagProduct(name, details, age, skin, benefits) ==
    [product_name |-> name, details |-> details, suitable_age |-> age,
     suitable_skin_types |-> skin, benefits |-> benefits,
     tags |-> Absent, target_concerns |-> Absent, key_ingredients |-> Absent]

\* bool(value) of a JSON value
Truthy(v) == (v.t = "str" /\ v.s # <<>>) \/ (v.t = "list" /\ v.list # <<>>)

\* the value left as the file gave it
AsGiven(v) == v

\* lines 143-144: a string becomes the list of that string; a list, a null
\* and a key the dict does not have stay as they are
AsList(v) == IF v.t = "str" THEN JList(<<v.s>>) ELSE v

\* lines 131-145
normalize_product(prod) ==
    [prod EXCEPT
        !.suitable_age = IF Truthy(@) THEN @ ELSE JStr(<<"0", "+">>),
        !.suitable_skin_types = IF Truthy(@) THEN AsList(@) ELSE JList(<<>>),
        !.benefits = IF Truthy(@) \/ Truthy(prod.tags) \/ Truthy(prod.target_concerns)
                     THEN AsList(@) ELSE JList(<<>>),
        !.tags = AsList(@),
        !.target_concerns = AsList(@),
        !.key_ingredients = AsList(@)]

\* lines 392-412, in tenths
GenderPart(gender, text) ==
    IF gender = "female"
    THEN IF AnyIn({NanShi, NanXing, Nan}, text) THEN -20
         ELSE IF AnyIn({NvShi, NvXing, Nv}, text) THEN 30 ELSE 10
    ELSE IF gender = "male"
    THEN IF AnyIn({NvShi, NvXing, Nv}, text) THEN -20
         ELSE IF AnyIn({NanShi, NanXing, Nan}, text) THEN 30 ELSE 10
    ELSE 0

\* lines 416-420: the first number in the product's age, 0 without one
ProductAge(s) ==
    IF \E i \in DOMAIN s : IsDigit(s[i])
    THEN Captured(s, {i \in DOMAIN s : IsDigit(s[i])})
    ELSE 0

\* lines 415-424
AgePart(cond, age) ==
    IF ~cond.has_age THEN 0
    ELSE IF ProductAge(IF Truthy(age) /\ age.t = "str" THEN age.s ELSE <<"0", "+">>)
               <= cond.age
    THEN 15 ELSE 5

\* lines 427-434
SkinPart(cond, skin) ==
    IF cond.skin_type = None THEN 0
    ELSE IF Truthy(skin) /\ cond.skin_type \in Range(AsList(skin).list) THEN 20
    ELSE 3

\* lines 459-464: the concerns that are part of a benefit or hold one
MatchedConcerns(concerns, benefits) ==
    Cardinality({i \in DOMAIN concerns :
        \E b \in benefits : IsSubstr(concerns[i], b) \/ IsSubstr(b, concerns[i])})

\* lines 450-453: the texts a field adds to product_benefits
TextsOf(v) ==
    IF v.t = "list" THEN v.list ELSE IF v.t = "str" THEN <<v.s>> ELSE <<>>

\* lines 442-453, for the keys a product of the catalogs has
BenefitTexts(product) ==
    TextsOf(product.benefits) \o TextsOf(product.tags)
        \o TextsOf(product.target_concerns) \o TextsOf(product.key_ingredients)

\* lines 437-469
ConcernPart(cond, benefits) ==
    IF cond.concerns = <<>> THEN 0
    ELSE IF MatchedConcerns(cond.concerns, Range(AsList(benefits).list)) > 0
    THEN MatchedConcerns(cond.concerns, Range(AsList(benefits).list)) * 10
    ELSE 2

\* lines 472-478
NamePart(cond, name) ==
    IF name # <<>> /\ \E i \in DOMAIN cond.concerns : IsSubstr(cond.concerns[i], name)
    THEN 5 ELSE 0

Max(a, b) == IF a > b THEN a ELSE b

\* lines 383-489, in tenths
_match_score(product, cond) ==
    Max(1 + GenderPart(cond.gender,
                       Lower(product.product_name) \o Sp \o Lower(product.details))
          + AgePart(cond, product.suitable_age)
          + SkinPart(cond, product.suitable_skin_types)
          + ConcernPart(cond, JList(BenefitTexts(product)))
          + NamePart(cond, product.product_name),
        1)

\* lines 206-219: TRUE iff the strict gender filter of retrieve skips the name
GenderSkips(gender, name) ==
    \/ gender = "female" /\ AnyIn({NanShi, NanXing, Nan}, Lower(name))
    \/ gender = "male" /\ AnyIn({NvShi, NvXing, Nv}, Lower(name))

\* the keys of every dict retrieve and _get_default_products build
ProductKeys ==
    {"product_name", "product_type", "target_concerns", "key_ingredients",
     "benefits", "usage_frequency", "usage_method", "usage_timing",
     "precautions", "recommendation_reason", "expected_results",
     "lifestyle_tips"}

Item(name, benefits, keys) ==
    [product_name |-> name, benefits |-> benefits, keys |-> keys]

\* lines 242-262: the dict built for a matched product
ItemOf(p) ==
    Item(IF p.product_name # <<>> THEN p.product_name
         ELSE <<"wei", "zhi", "chan", "pin">>,
         IF Truthy(p.benefits) THEN p.benefits
         ELSE IF Truthy(p.tags) THEN p.tags ELSE JList(<<>>),
         ProductKeys \cup {"price", "specification", "details", "link"})

\* lines 270-312
default_products ==
    << Item(OuLaiYa \o <<"fu4", "yan">> \o Serum \o Cream,
            JList(<<BaoShi, KangZhou, <<"ti", "liang">>>>), ProductKeys),
       Item(OuLaiYa \o <<"qing", "run">> \o Serum \o <<"ye4">>,
            JList(<<<<"kang", "yang", "hua">>, <<"ti", "liang">>, BaoShi>>),
            ProductKeys),
       Item(OuLaiYa \o <<"qing", "chun">> \o Serum \o <<"ji", "di", "ye4">>,
            JList(<<<<"kang", "shuai", "lao">>, JinZhi, XiuHu>>), ProductKeys) >>

\* s[:n] of Python
Slice(s, n) ==
    IF n >= 0 THEN SubSeq(s, 1, Min(n, Len(s)))
    ELSE SubSeq(s, 1, Max(Len(s) + n, 0))

\* lines 268-314
_get_default_products(count) == Slice(default_products, count)

Retrieved(items, source, cond) ==
    [items |-> items, source |-> source, conditions |-> cond]

NoConditions == RagConditions(Age(FALSE, 0), "none", None, <<>>)

\* lines 198-222: (score, product) of the products the gender filter keeps
RagMatched(products, cond) ==
    Keep([i \in DOMAIN products |-> ~GenderSkips(cond.gender, products[i].product_name)],
         [i \in DOMAIN products |->
             [match_score |-> _match_score(products[i], cond), p |-> products[i]]])

\* lines 235-262: sorted by score, the first top_k as dicts
Ranking(matched, top_k) ==
    [i \in DOMAIN Slice(matched, top_k) |-> ItemOf(SortedDesc(matched)[i].p)]

\* lines 193-262
FromProducts(products, cond, top_k) ==
    IF products = <<>> \/ RagMatched(products, cond) = <<>>
    THEN Retrieved(_get_default_products(top_k), "default", cond)
    ELSE Retrieved(Ranking(RagMatched(products, cond), top_k), "matched", cond)

\* lines 176-266, for the catalogs all and elder as initialize left them
Retrieve(all, elder, query, top_k) ==
    IF all = <<>> /\ elder = <<>>
    THEN Retrieved(_get_default_products(top_k), "default", NoConditions)
    ELSE FromProducts(IF _parse_query(query).has_age /\ _parse_query(query).age >= 50
                      THEN elder ELSE all,
                      _parse_query(query), top_k)

\* a product file: "missing", "corrupt" (json.load raises) or "ok"
RagFile(kind, products) == [kind |-> kind, products |-> products]

Catalogs2(all, elder) == [all |-> all, elder |-> elder]

NormalizeAll(products) == [i \in DOMAIN products |-> normalize_product(products[i])]

\* lines 108-159: a file that is missing gives no product; a file that does
\* not load raises, and the handler of line 155 empties both catalogs
RagLoad(files) ==
    IF files.all.kind = "corrupt" \/ files.elder.kind = "corrupt"
    THEN Catalogs2(<<>>, <<>>)
    ELSE Catalogs2(NormalizeAll(files.all.products), NormalizeAll(files.elder.products))

\* the keys of a skin analysis
KeyXingBie == "xing_bie"
KeyGender == "gender"
KeyAge == "nian_ling"
KeySkinType == "pi_fu_lei_xing"
KeyProblems == "zhu_yao_pi_fu_wen_ti"
KeyFeatures == "zhu_yao_te_zheng"

\* str(skin_analysis)
StrOf(skin_analysis) == ReprFilters([is_none |-> FALSE, entries |-> skin_analysis.entries])

In(key, skin_analysis) == \E i \in DOMAIN skin_analysis.entries : skin_analysis.entries[i].k = key

\* lines 556-563: the gender words put first in the query
QueryGender(a, str) ==
    IF In(KeyXingBie, a) THEN Fmt(Get(a, KeyXingBie, JNull)) \o Sp
    ELSE IF In(KeyGender, a) THEN Fmt(Get(a, KeyGender, JNull)) \o Sp
    ELSE IF AnyIn({NvXing, NvShi, Nv}, str) THEN NvXing \o Sp
    ELSE IF AnyIn({NanXing, NanShi, Nan}, str) THEN NanXing \o Sp
    ELSE <<>>

\* lines 566-569
QueryStrategy(query) ==
    IF IsSubstr(NvXing, query) THEN query \o HuFu \o <<" ", "-">> \o NanShi
    ELSE IF IsSubstr(NanXing, query) THEN query \o HuFu
    ELSE query

\* lines 572-575
QueryAge(a, str) ==
    IF In(KeyAge, a) THEN Fmt(Get(a, KeyAge, JNull)) \o Sp
    ELSE IF IsSubstr(LaoNian, str) THEN LaoNian \o <<"ren", " ">>
    ELSE <<>>

\* lines 578-579
QuerySkinType(a) ==
    IF In(KeySkinType, a) THEN Fmt(Get(a, KeySkinType, JNull)) \o Sp ELSE <<>>

\* lines 582-589
QueryProblems(a) ==
    IF In(KeyProblems, a)
    THEN IF Get(a, KeyProblems, JNull).t = "list"
         THEN Join(Sp, Get(a, KeyProblems, JNull).list)
         ELSE Fmt(Get(a, KeyProblems, JNull))
    ELSE IF In(KeyFeatures, a) THEN Fmt(Get(a, KeyFeatures, JNull)) \o Sp
    ELSE <<>>

\* lines 592-593: a query of blanks alone is replaced
OrDefaultQuery(query) ==
    IF \A i \in DOMAIN query : query[i] = " "
    THEN BaoShi \o Sp \o KangZhou \o Sp \o XiuHu
    ELSE query

\* lines 553-593: the query get_product_recommendations builds
BuildQuery(a) ==
    OrDefaultQuery(QueryStrategy(QueryGender(a, StrOf(a))) \o QueryAge(a, StrOf(a))
                   \o QuerySkinType(a) \o QueryProblems(a))

NoAnalysis == JObj(<<>>)

RagCall(op, query, top_k, analysis, retrieved, keys) ==
    [op |-> op, query |-> query, top_k |-> top_k, analysis |-> analysis,
     result |-> retrieved.items, source |-> retrieved.source,
     conditions |-> retrieved.conditions, keys |-> keys]

(***************************************************************************)
(* The catalogs, queries and analyses the RAGModel is exercised with       *)
(***************************************************************************)
rFemaleCream ==
    RagProduct(NvShi \o BaoShi \o <<"shuang">>, <<>>, JNull, JList(<<GanXing>>),
               JList(<<BaoShi, BuShui>>))
rMaleWash ==
    RagProduct(NanShi \o KongYou \o <<"jie", "mian">>, <<>>, JStr(<<"1", "8", "+">>),
               JStr(YouXing), JStr(KongYou))
rPlainSerum == RagProduct(Serum, KangZhou, JNull, JNull, JNull)
rElderCream ==
    RagProduct(<<"jin", "zhi">> \o Cream, <<>>, JStr(<<"5", "0", "+">>), JNull,
               JList(<<KangZhou, JinZhi>>))
rNameless == RagProduct(<<>>, <<>>, JStr(<<>>), JList(<<>>), JStr(<<>>))
\* tags and key_ingredients given as bare strings, no benefits
rTagged ==
    [RagProduct(BuShui \o <<"ru", "ye">>, <<>>, JStr(<<"2", "5", "+">>), JStr(GanXing),
                Absent)
        EXCEPT !.tags = JStr(BuShui), !.key_ingredients = JStr(<<"bo", "niao", "suan">>)]
\* "tags": null beside a list of benefits
rNullTags ==
    [RagProduct(XiuHu \o Cream, <<>>, JNull, JList(<<>>), JList(<<XiuHu>>))
        EXCEPT !.tags = JNull, !.target_concerns = JList(<<MinGan>>)]

RagDiskPool ==
    {Catalogs2(RagFile("missing", <<>>), RagFile("missing", <<>>)),
     Catalogs2(RagFile("ok", <<>>), RagFile("ok", <<>>)),
     Catalogs2(RagFile("ok", <<rFemaleCream, rMaleWash, rPlainSerum>>),
               RagFile("ok", <<rElderCream, rNameless>>)),
     Catalogs2(RagFile("ok", <<rMaleWash>>), RagFile("missing", <<>>)),
     Catalogs2(RagFile("ok", <<rTagged, rPlainSerum>>), RagFile("ok", <<rNullTags>>)),
     Catalogs2(RagFile("ok", <<rFemaleCream, rPlainSerum>>),
               RagFile("corrupt", <<>>))}

RagQueryPool ==
    {<<>>,
     NvXing \o Sp \o HuFu \o <<" ", "-">> \o NanShi \o <<"5", "5", "sui", " ">> \o GanXing,
     NanXing \o Sp \o HuFu \o <<"3", "0", " ", "sui", " ">> \o NvXing \o <<"dou">>,
     LaoNian \o <<"ren", " ">> \o BaoShi,
     <<"6", "0", "+", " ">> \o XiWen,
     <<"4", "5", "sui", "yi", "shang", " ", "7", "0", "+">> \o LaoNian}

AnalysisPool ==
    {NoAnalysis,
     JObj(<<KV(KeyXingBie, JStr(NanXing)),
            KV(KeyProblems, JList(<<NvXing \o <<"ji", "su", "dou">>, GanZao>>))>>),
     JObj(<<KV(KeyXingBie, JStr(NvXing)), KV(KeyAge, JStr(<<"5", "5", "sui">>)),
            KV(KeySkinType, JStr(GanXing)), KV(KeyProblems, JStr(XiWen))>>),
     JObj(<<KV(KeyXingBie, JStr(Nan)), KV(KeyAge, JStr(<<"3", "0">>)),
            KV(KeyFeatures, JStr(<<"chu1", "you">>))>>),
     JObj(<<KV(KeyGender, JStr(NanXing)), KV(KeyProblems, JStr(KongYou))>>),
     JObj(<<KV(KeyXingBie, JStr(NvXing)), KV(KeyProblems, JStr(NanXing \o <<"hua4">>))>>),
     JObj(<<KV(KeyFeatures, JStr(LaoNian \o NvXing \o <<"pi", "fu">>))>>)}

\* the largest top_k of a call of retrieve
MaxRagK == 4
RagMaxOps == 2

(***************************************************************************)
(* RAGModel: initialize, retrieve, get_product_recommendations             *)
(***************************************************************************)
\* lines 108-159
rag_initialize ==
    /\ rag_ops < RagMaxOps
    /\ all_products' = RagLoad(rag_disk).all
    /\ elder_products' = RagLoad(rag_disk).elder
    /\ rag_initialized' = TRUE
    /\ rag_last' = RagCall("initialize", <<>>, 0, NoAnalysis,
                           Retrieved(<<>>, "none", NoConditions), {})
    /\ rag_ops' = rag_ops + 1
    /\ UNCHANGED <<rag_disk, recVars, kmVars, emVars, upd>>

\* lines 172-174: retrieve calls initialize first when it has not run
EnsureInitialized ==
    IF rag_initialized
    THEN UNCHANGED <<all_products, elder_products, rag_initialized>>
    ELSE /\ all_products' = RagLoad(rag_disk).all
         /\ elder_products' = RagLoad(rag_disk).elder
         /\ rag_initialized' = TRUE

\* lines 161-266
retrieve ==
    /\ rag_ops < RagMaxOps
    /\ EnsureInitialized
    /\ \E query \in RagQueryPool, top_k \in 0..MaxRagK :
          rag_last' = RagCall("retrieve", query, top_k, NoAnalysis,
                              Retrieve(all_products', elder_products', query, top_k), {})
    /\ rag_ops' = rag_ops + 1
    /\ UNCHANGED <<rag_disk, recVars, kmVars, emVars, upd>>

\* lines 549-611: the returned dict has the keys success and recommendations
get_product_recommendations ==
    /\ rag_ops < RagMaxOps
    /\ EnsureInitialized
    /\ \E skin_analysis \in AnalysisPool :
          rag_last' = RagCall("get_product_recommendations", BuildQuery(skin_analysis),
                              3, skin_analysis,
                              Retrieve(all_products', elder_products',
                                       BuildQuery(skin_analysis), 3),
                              {"success", "recommendations"})
    /\ rag_ops' = rag_ops + 1
    /\ UNCHANGED <<rag_disk, recVars, kmVars, emVars, upd>>

(***************************************************************************)
(* update_knowledge statement by statement, for the calls of search that   *)
(* another thread makes while it runs                                      *)
(***************************************************************************)
UpdState(pc, todo, new_documents, answer, old, new) ==
    [pc |-> pc, todo |-> todo, new_documents |-> new_documents,
     answer |-> answer, old |-> old, new |-> new]

UpdIdle == UpdState("idle", <<>>, <<>>, "vectors", Snapshot(<<>>, NoIndex),
                    Snapshot(<<>>, NoIndex))

\* the corpus and the index the whole call leaves behind (lines 258-262)
AfterUpdate(st, index, answer) ==
    Snapshot(st.documents,
             IF st.raised THEN index ELSE _build_index(st.documents, answer).vector_index)

\* line 258: the call is entered
update_begin ==
    /\ initialized
    /\ km_ops < KmMaxOps
    /\ upd.pc = "idle"
    /\ \E new_documents \in NewDocuments, answer \in Answers :
          /\ Len(documents) + Len(new_documents) <= MaxDocs
          /\ upd' = UpdState("loop", new_documents, new_documents, answer,
                             Snapshot(documents, vector_index),
                             AfterUpdate(AddDocuments(KmState(documents, metadata_index, FALSE),
                                                      new_documents),
                                         vector_index, answer))
    /\ km_ops' = km_ops + 1
    /\ UNCHANGED <<documents, metadata_index, vector_index, embeddings_matrix,
                   cache, initialized, km_last, disk, recVars, emVars, ragVars>>

\* the call returns, or an exception leaves it
UpdReturn(raised) ==
    /\ upd' = [upd EXCEPT !.pc = "idle", !.todo = <<>>]
    /\ km_last' = Call("update_knowledge", raised, <<>>,
                       [new_documents |-> upd.new_documents, saved |-> ~raised])

Appended(st) ==
    IF st.raised
    THEN UpdReturn(TRUE) /\ UNCHANGED <<documents, metadata_index>>
    ELSE /\ documents' = st.documents
         /\ metadata_index' = st.metadata_index
         /\ upd' = [upd EXCEPT !.todo = Tail(upd.todo)]
         /\ UNCHANGED km_last

\* lines 259-260: one iteration of the loop, or its end
update_process ==
    /\ upd.pc = "loop"
    /\ IF upd.todo = <<>>
       THEN /\ upd' = [upd EXCEPT !.pc = "build"]
            /\ UNCHANGED <<documents, metadata_index, km_last>>
       ELSE Appended(AddDocument(KmState(documents, metadata_index, FALSE),
                                 Head(upd.todo)))
    /\ UNCHANGED <<vector_index, embeddings_matrix, cache, initialized, km_ops,
                   disk, recVars, emVars, ragVars>>

\* lines 131-175 of _build_index: without documents the empty index and
\* matrix are set and the call ends; otherwise the texts are embedded and
\* self.embeddings_matrix is assigned
update_embed ==
    /\ upd.pc = "build"
    /\ embeddings_matrix' = _build_index(documents, upd.answer).embeddings_matrix
    /\ IF documents = <<>>
       THEN vector_index' = BuildEmpty.vector_index /\ UpdReturn(FALSE)
       ELSE /\ upd' = [upd EXCEPT !.pc = "publish"]
            /\ UNCHANGED <<vector_index, km_last>>
    /\ UNCHANGED <<documents, metadata_index, cache, initialized, km_ops, disk,
                   recVars, emVars, ragVars>>

\* lines 177, 184: self.vector_index = faiss.IndexFlatL2(d), a new index
\* without vectors; after a failure (line 184) nothing is added to it
update_publish ==
    /\ upd.pc = "publish"
    /\ vector_index' =
          IndexFlatL2(_build_index(documents, upd.answer).vector_index.d, <<>>)
    /\ IF _build_index(documents, upd.answer).vector_index.vecs = <<>>
       THEN UpdReturn(FALSE)
       ELSE upd' = [upd EXCEPT !.pc = "add"] /\ UNCHANGED km_last
    /\ UNCHANGED <<documents, metadata_index, embeddings_matrix, cache,
                   initialized, km_ops, disk, recVars, emVars, ragVars>>

\* line 178: self.vector_index.add(self.embeddings_matrix), then line 262
update_add ==
    /\ upd.pc = "add"
    /\ vector_index' = _build_index(documents, upd.answer).vector_index
    /\ UpdReturn(FALSE)
    /\ UNCHANGED <<documents, metadata_index, embeddings_matrix, cache,
                   initialized, km_ops, disk, recVars, emVars, ragVars>>

(***************************************************************************)
(* Specifications: one per component, the other components at rest         *)
(***************************************************************************)
RecIdle ==
    /\ skin_conditions = Conditions("dict", <<>>)
    /\ user_profile = Profile("none", Undetected, "absent", "str", <<>>, <<>>, FALSE)
    /\ product_info = <<>>
    /\ rec_pc = "idle"
    /\ rec_result = <<>>
    /\ rec_raised = FALSE
    /\ rec_trace = NoTrace

\* lines 20-27 of knowledge_base.py: the fields as the constructor sets them
KmFields ==
    /\ documents = <<>>
    /\ metadata_index = <<>>
    /\ vector_index = NoIndex
    /\ embeddings_matrix = NoMatrix
    /\ cache = <<>>
    /\ initialized = FALSE
    /\ km_last = NoCall
    /\ km_ops = 0

KmIdle == disk = <<>> /\ KmFields

KmInit == disk \in DiskPool /\ KmFields

EmFields ==
    /\ em_i = 0
    /\ em_attempt = 0
    /\ em_out = <<>>
    /\ em_log = <<>>
    /\ em_raised = FALSE

EmIdle == em_input = [is_str |-> FALSE, n |-> 0] /\ em_pc = "idle" /\ EmFields

EmInit == em_input \in InputPool /\ em_pc = "called" /\ EmFields

\* lines 95-101 of rag_model.py: the fields as the constructor sets them
RagFields ==
    /\ all_products = <<>>
    /\ elder_products = <<>>
    /\ rag_initialized = FALSE
    /\ rag_last = RagCall("none", <<>>, 0, NoAnalysis,
                          Retrieved(<<>>, "none", NoConditions), {})
    /\ rag_ops = 0

RagIdle ==
    /\ rag_disk = Catalogs2(RagFile("missing", <<>>), RagFile("missing", <<>>))
    /\ RagFields

RagInit == rag_disk \in RagDiskPool /\ RagFields


\* The recommendation engine: every call of generate_recommendations.
Init == RecInit /\ KmIdle /\ EmIdle /\ RagIdle /\ upd = UpdIdle

Next == generate_recommendations /\ UNCHANGED <<kmVars, emVars, ragVars, upd>>

Spec == Init /\ [][Next]_vars

\* The knowledge manager: construction, then calls in any order.
InitKM == RecIdle /\ KmInit /\ EmIdle /\ RagIdle /\ upd = UpdIdle

NextKM == initialize \/ search \/ update_knowledge

SpecKM == InitKM /\ [][NextKM]_vars

\* A KnowledgeManager in use: constructed over a knowledge directory of two
\* documents and asked one search of the whole corpus with use_cache=True;
\* then calls of initialize, search and update_knowledge.
WarmDisk ==
    <<File(SkinConditions, TRUE, dAcne), File(Products, TRUE, dCream)>>

WarmBuilt == _build_index(_load_knowledge(WarmDisk).documents, "vectors")

InitStale ==
    /\ RecIdle /\ EmIdle /\ RagIdle /\ upd = UpdIdle
    /\ disk = WarmDisk
    /\ documents = _load_knowledge(WarmDisk).documents
    /\ metadata_index = _load_knowledge(WarmDisk).metadata_index
    /\ vector_index = WarmBuilt.vector_index
    /\ embeddings_matrix = WarmBuilt.embeddings_matrix
    /\ initialized = TRUE
    /\ km_ops = 0
    /\ \E query \in QueryPool, top_k \in 1..MaxTopK :
          \E o \in SearchOutcomes(documents, metadata_index, vector_index, <<>>,
                                  query, None, NoFilters, top_k, TRUE, "vectors") :
             /\ cache = o.cache
             /\ km_last = Call("search", FALSE, o.result,
                               SearchArgs(query, None, NoFilters, top_k, TRUE,
                                          "vectors", o.hit))

NextStale == initialize \/ search \/ update_knowledge

SpecStale == InitStale /\ [][NextStale]_vars

\* The embedding model: one call of predict.
InitEmbed == RecIdle /\ KmIdle /\ EmInit /\ RagIdle /\ upd = UpdIdle

NextEmbed == predict_enter \/ predict_attempt

SpecEmbed == InitEmbed /\ [][NextEmbed]_vars

\* The same call, every HTTP attempt of which comes to an end: requests.post
\* is given timeout=30 (line 105) and the sleeps of lines 126, 136 and 143
\* are finite, so the loop of predict always takes its next step.
SpecEmbedLive == InitEmbed /\ [][NextEmbed]_vars /\ WF_vars(NextEmbed)

\* The RAG model: calls in any order on a freshly constructed object.
InitRAG == RecIdle /\ KmIdle /\ EmIdle /\ RagInit /\ upd = UpdIdle

NextRAG == rag_initialize \/ retrieve \/ get_product_recommendations

SpecRAG == InitRAG /\ [][NextRAG]_vars

\* The knowledge manager with one update_knowledge running statement by
\* statement while another thread calls search.
NextConc ==
    \/ initialize
    \/ search
    \/ update_begin
    \/ update_process
    \/ update_embed
    \/ update_publish
    \/ update_add

SpecConc == InitKM /\ [][NextConc]_vars

(***************************************************************************)
(* Claims about the recommendation engine (specification Spec)             *)
(***************************************************************************)
\* The user's gender as the code knows it before it looks at any product:
\* lines 159-198, the female branch of line 220 first.
KnownGender(up) ==
    LET g == FromText(FromDict(FromState(DetectedGender(up)),
                               HasAnalysis(up) /\ up.sa_kind = "dict",
                               Lower(up.sa_gender)),
                      SkinAnalysisCalc(up))
    IN IF g.is_female THEN FemaleUser ELSE IF g.is_male THEN MaleUser ELSE Undetected

\* p's name+details text carries a marker of the gender opposite to `gender`
OppositeMarked(p, gender) ==
    \/ gender = FemaleUser /\ MaleMarked(p)
    \/ gender = MaleUser /\ FemaleMarked(p)

ReturnedProducts == {i \in DOMAIN rec_result : rec_result[i].kind = "product"}

\* C1 (as claimed): whenever the user's gender is known, no returned product
\* carries a marker of the opposite gender, on the strict pass and on the
\* relaxed pass alike.
C1_VetoInvariant ==
    rec_pc = "returned" =>
        \A i \in ReturnedProducts :
            ~OppositeMarked(rec_result[i].p, KnownGender(user_profile))

\* C2 (as claimed), for the calls whose diversity pass ran to its end: at most
\* K = 3 products are returned, and exactly 3 whenever at least 3 candidates
\* survived the gender veto.
C2_KBound ==
    (rec_pc = "returned" /\ rec_trace.path = "strict") =>
        /\ Len(rec_result) <= TopK
        /\ Len(rec_trace.matched) >= TopK => Len(rec_result) = TopK

SharingBrand(list, k) ==
    {i \in DOMAIN list :
        IsSubstr(brand_keywords[k], Lower(Str(list[i].p.product_name)))}

SharingCategory(list, k) ==
    {i \in DOMAIN list :
        \/ IsSubstr(category_keywords[k], Lower(Str(list[i].p.product_type)))
        \/ IsSubstr(category_keywords[k], Lower(Str(list[i].p.product_name)))}

Diverse(list) ==
    /\ \A k \in DOMAIN brand_keywords : Cardinality(SharingBrand(list, k)) <= 2
    /\ \A k \in DOMAIN category_keywords : Cardinality(SharingCategory(list, k)) <= 2

\* C3: the list built by the diversity pass holds at most 2 items sharing any
\* one brand keyword and at most 2 sharing any one category keyword; when no
\* backfill was needed, that list is the returned list.
C3_DiversityBound ==
    (rec_pc = "returned" /\ rec_trace.path \in {"strict", "exception"}) =>
        /\ Diverse(rec_trace.diverse)
        /\ (rec_trace.path = "strict" /\ Len(rec_trace.diverse) >= TopK)
              => (rec_result = rec_trace.diverse /\ Diverse(rec_result))

\* C3 witness: three candidates share one brand keyword and the diversity
\* pass took two of them and left the third out.
C3_Witness ==
    /\ rec_pc = "returned"
    /\ rec_trace.path = "strict"
    /\ Len(rec_trace.diverse) = 2
    /\ \E k \in DOMAIN brand_keywords :
          /\ Cardinality(SharingBrand(rec_trace.matched, k)) = 3
          /\ Cardinality(SharingBrand(rec_trace.diverse, k)) = 2

OccursOutside(words, inside, text) ==
    \E w \in words : \E i \in 1..(Len(text) - Len(w) + 1) :
        /\ SubSeq(text, i, i + Len(w) - 1) = w
        /\ ~\E v \in inside : \E j \in 1..(Len(text) - Len(v) + 1) :
              /\ SubSeq(text, j, j + Len(v) - 1) = v
              /\ j <= i /\ i + Len(w) <= j + Len(v)

\* p is marked for `gender` (a keyword of that gender occurs in its text) and
\* not for the other gender (no keyword of the other gender occurs on its own)
OwnGenderProduct(p, gender) ==
    \/ /\ gender = FemaleUser
       /\ FemaleMarked(p)
       /\ ~OccursOutside(MaleProductWords, FemaleProductWords, ProductText(p))
    \/ /\ gender = MaleUser
       /\ MaleMarked(p)
       /\ ~OccursOutside(FemaleProductWords, MaleProductWords, ProductText(p))

\* C10 (as claimed): for a user of known gender, a product marked for the
\* user's own gender and not for the other one is never vetoed, gets the
\* same-gender score and is among the candidates of the strict pass.
C10_OwnGenderKept ==
    (rec_pc = "returned" /\ rec_trace.path # "none") =>
        \A i \in DOMAIN product_info :
            OwnGenderProduct(product_info[i], KnownGender(user_profile)) =>
                /\ ~GenderRule(product_info[i], user_profile).veto
                /\ \E j \in DOMAIN rec_trace.matched :
                      /\ rec_trace.matched[j].p = product_info[i]
                      /\ rec_trace.matched[j].match_score > ScoreFloor

(***************************************************************************)
(* Claims about the knowledge manager (specification SpecKM)               *)
(***************************************************************************)
\* C5: while no document is loaded, the index built by initialize exists,
\* has dimension 768 and holds zero vectors, and every search, whatever its
\* query, category, filters and top_k, returns the empty list and does not
\* raise.
C5_EmptyCorpus ==
    (initialized /\ documents = <<>>) =>
        /\ vector_index = IndexFlatL2(EmbeddingDim, <<>>)
        /\ km_last.op = "search" => (km_last.result = <<>> /\ ~km_last.raised)

\* C5 witness: the knowledge directory had files, none of them gave a
\* document, and a search with a category and a filter has returned.
C5_Witness ==
    /\ initialized
    /\ documents = <<>>
    /\ disk # <<>>
    /\ km_last.op = "search"
    /\ km_last.args.category = SkinConditions
    /\ ~km_last.args.metadata_filters.is_none

\* the metadata of doc hold value v under key
HasValue(metadata, key, v) ==
    \E j \in DOMAIN metadata :
        metadata[j].k = key /\ v \in Range(ValuesOf(metadata[j].v))

\* doc is of the category asked for and holds every value of every filter
Satisfies(doc, category, filters) ==
    /\ (category # None /\ category # <<>>) => doc.category = category
    /\ ~filters.is_none =>
          \A i \in DOMAIN filters.entries :
              \A v \in Range(ValuesOf(filters.entries[i].v)) :
                  HasValue(doc.metadata, filters.entries[i].k, v)

\* C6: every document a search returns is of the category asked for and
\* satisfies every entry of metadata_filters, every listed value of a
\* list-valued entry included.
C6_FilterAnd ==
    km_last.op = "search" =>
        \A i \in DOMAIN km_last.result :
            Satisfies(km_last.result[i], km_last.args.category,
                      km_last.args.metadata_filters)

\* C6 witness: a search for skin_conditions with a two-valued severity filter
\* returned a document while the corpus also held a products document and a
\* skin_conditions document that fails the filter.
C6_Witness ==
    /\ km_last.op = "search"
    /\ km_last.args.category = SkinConditions
    /\ km_last.args.metadata_filters = Filters(<<KV("severity", JList(<<Mild, Severe>>))>>)
    /\ km_last.result # <<>>
    /\ \E i \in DOMAIN documents : documents[i].category = Products
    /\ \E i \in DOMAIN documents :
          /\ documents[i].category = SkinConditions
          /\ ~Satisfies(documents[i], SkinConditions, km_last.args.metadata_filters)

\* C7 (as claimed): no call of initialize, search or update_knowledge lets an
\* exception reach its caller.
C7_NoExceptionPropagates == ~km_last.raised

(***************************************************************************)
(* Claims about the embedding model (specification SpecEmbed)              *)
(***************************************************************************)
VectorsOfBatch(b) == SelectSeq(em_out, LAMBDA v : v.batch = b)

\* C8: predict returns without raising, having gone through every batch; a
\* batch whose every attempt failed contributed exactly one all-zero vector
\* of dimension 768 per text, in the place of that batch in the output.
C8_ZeroVectorFallback ==
    em_pc = "returned" =>
        /\ ~em_raised
        /\ Len(em_log) = (em_input.n + batch_size - 1) \div batch_size
        /\ \A i, j \in DOMAIN em_out : i < j => em_out[i].batch <= em_out[j].batch
        /\ \A b \in DOMAIN em_log :
              /\ em_log[b].size = Min(batch_size, em_input.n - (b - 1) * batch_size)
              /\ ~em_log[b].succeeded =>
                    /\ Len(VectorsOfBatch(b)) = em_log[b].size
                    /\ \A i \in DOMAIN VectorsOfBatch(b) :
                          /\ VectorsOfBatch(b)[i].zero
                          /\ VectorsOfBatch(b)[i].dim = 768

\* C8 witness: the first batch failed at every attempt, the second batch was
\* then processed and succeeded.
C8_Witness ==
    /\ em_pc = "returned"
    /\ Len(em_log) = 2
    /\ ~em_log[1].succeeded /\ em_log[1].attempts = 3
    /\ em_log[2].succeeded

(***************************************************************************)
(* Claims about the RAG model (specification SpecRAG)                      *)
(***************************************************************************)
\* a dict with a key that no dict built for a matched product has
Flagged(keys) == keys \ ItemOf(rFemaleCream).keys # {}

\* C11 (as claimed): with both catalogs empty, retrieve and
\* get_product_recommendations answer with the static default list cut to
\* top_k, at most 3 items, and the answer is flagged as not personalized: by
\* a key of every returned dict, or by a key of the dict that wraps them
\* other than the success and recommendations of every answer.
C11_DefaultFlagged ==
    (/\ rag_last.op \in {"retrieve", "get_product_recommendations"}
     /\ all_products = <<>> /\ elder_products = <<>>
     /\ rag_last.top_k > 0) =>
        /\ rag_last.result = _get_default_products(rag_last.top_k)
        /\ Len(rag_last.result) <= 3
        /\ \/ \A i \in DOMAIN rag_last.result : Flagged(rag_last.result[i].keys)
           \/ rag_last.keys \ {"success", "recommendations"} # {}

\* the gender a gender field names
FieldGender(v) ==
    IF v \in {NvXing, NvShi, Nv, Female} THEN "female"
    ELSE IF v \in {NanXing, NanShi, Nan, Male} THEN "male"
    ELSE "none"

\* C20 (as claimed): when the skin analysis carries a gender field (key
\* xing bie, else key gender), the gender of the conditions extracted from
\* the query is the gender that field names, whatever gender words the other
\* fields hold.
C20_GenderFieldWins ==
    (/\ rag_last.op = "get_product_recommendations"
     /\ rag_last.source \in {"matched", "default"}
     /\ all_products # <<>> \/ elder_products # <<>>
     /\ In(KeyXingBie, rag_last.analysis) \/ In(KeyGender, rag_last.analysis)) =>
        rag_last.conditions.gender =
            FieldGender(IF In(KeyXingBie, rag_last.analysis)
                        THEN Get(rag_last.analysis, KeyXingBie, JNull).s
                        ELSE Get(rag_last.analysis, KeyGender, JNull).s)

(***************************************************************************)
(* Further claims about the knowledge manager (specification SpecKM)       *)
(***************************************************************************)
\* the value of the query vector of the last search
QueryVal == predict(<<km_last.args.query>>, km_last.args.answer).vectors[1].val

\* the squared L2 distance from the query of the vector at position pos
DistAt(pos) == Dist(vector_index.vecs[pos], QueryVal)

\* result r is the document at position pos with the score 1/(1+d), in
\* millionths rounded down, of that document's distance d
ScoredFrom(r, pos) ==
    /\ r = Found(documents[pos], r.similarity_score)
    /\ r.similarity_score * (1 + DistAt(pos)) <= 1000000
    /\ (r.similarity_score + 1) * (1 + DistAt(pos)) > 1000000

IndexedDocs == DOMAIN documents \cap DOMAIN vector_index.vecs

\* C12: every document a search computes (no cache hit) carries the score
\* 1/(1+d) of its squared L2 distance d, which lies in (0,1]; of two returned
\* documents the nearer has the strictly larger score, and the results come
\* in non-increasing order of score.
C12_ScoreMonotone ==
    (km_last.op = "search" /\ ~km_last.args.hit) =>
        /\ \A i \in DOMAIN km_last.result :
              /\ km_last.result[i].similarity_score > 0
              /\ km_last.result[i].similarity_score <= 1000000
              /\ \E pos \in IndexedDocs : ScoredFrom(km_last.result[i], pos)
        /\ \A i, j \in DOMAIN km_last.result :
              /\ i < j => km_last.result[i].similarity_score
                              >= km_last.result[j].similarity_score
              /\ \A pi, pj \in IndexedDocs :
                    (/\ ScoredFrom(km_last.result[i], pi)
                     /\ ScoredFrom(km_last.result[j], pj)
                     /\ DistAt(pi) < DistAt(pj))
                    => km_last.result[i].similarity_score
                          > km_last.result[j].similarity_score

\* C12 witness: a search computed two documents at different distances, the
\* nearer first, neither at distance 0.
C12_Witness ==
    /\ km_last.op = "search" /\ ~km_last.args.hit
    /\ Len(km_last.result) = 2
    /\ km_last.result[1].similarity_score < 1000000
    /\ km_last.result[1].similarity_score > km_last.result[2].similarity_score

\* C13: in every reachable state the vector index and the matrix of corpus
\* vectors have dimension 768, whatever the provider answered.
C13_Dim768 ==
    (initialized /\ ~vector_index.is_none) =>
        /\ vector_index.d = EmbeddingDim
        /\ ~embeddings_matrix.is_none => embeddings_matrix.d = EmbeddingDim

(***************************************************************************)
(* Claims about a search concurrent with update_knowledge (SpecConc)       *)
(***************************************************************************)
\* C14: a search that runs while update_knowledge is running in another
\* thread reads either the document list and index the update started from
\* or the document list and index it leaves behind, never a state between.
C14_SearchSeesOldOrNew ==
    (km_last.op = "search" /\ km_last.args.during # "idle") =>
        km_last.args.seen \in {upd.old, upd.new}

(***************************************************************************)
(* Further claims about the recommendation engine (specification Spec)     *)
(***************************************************************************)
Draws == [DOMAIN product_info -> JitterPool]

\* the strict and the relaxed pass can keep `list` for the call's arguments
StrictKeeps(list) ==
    \E jits \in Draws :
        StrictPass(skin_conditions, user_profile, product_info, jits) = list
RelaxedKeeps(list) ==
    \E jits \in Draws :
        RelaxedPass(skin_conditions, user_profile, product_info, jits) = list

Items(list) == {list[i] : i \in DOMAIN list}

\* entry e is a catalog product with a score the strict pass keeps it with
StrictCandidate(e) ==
    \E i \in DOMAIN product_info, jit \in JitterPool :
        /\ product_info[i] = e.p
        /\ ~SecondCheckSkips(product_info[i], user_profile)
        /\ _calculate_match_score(product_info[i], skin_conditions,
                                  user_profile, jit).product = e
        /\ ~BelowFloor(e.match_score)

\* C15: the relaxed pass gives the result only when the strict pass kept no
\* candidate, the "no match" placeholder is returned only when the relaxed
\* pass kept none either, and when the strict pass kept a candidate every
\* returned product is one of its candidates.
C15_FallbackOrder ==
    (rec_pc = "returned" /\ rec_trace.path # "none") =>
        /\ rec_trace.path \in {"relaxed", "placeholder"} => StrictKeeps(<<>>)
        /\ rec_trace.path = "relaxed" =>
              /\ rec_trace.matched # <<>>
              /\ RelaxedKeeps(rec_trace.matched)
              /\ Items(rec_result) \subseteq Items(rec_trace.matched)
        /\ rec_trace.path = "placeholder" =>
              /\ RelaxedKeeps(<<>>)
              /\ rec_result = <<Placeholder("no_match")>>
        /\ rec_trace.path \in {"strict", "exception"} =>
              /\ rec_trace.matched # <<>>
              /\ \A e \in Items(rec_trace.matched) : StrictCandidate(e)
              /\ rec_trace.path = "strict" =>
                    Items(rec_result) \subseteq Items(rec_trace.matched)

\* C15 witness: with products in the catalog, both passes kept nothing and
\* the placeholder was returned.
C15_Witness ==
    /\ rec_pc = "returned"
    /\ product_info # <<>>
    /\ rec_trace.path = "placeholder"
    /\ StrictKeeps(<<>>)
    /\ RelaxedKeeps(<<>>)

\* the items the backfill appended, and the candidates it left out
Backfilled == SubSeq(rec_result, Len(rec_trace.diverse) + 1, Len(rec_result))
LeftOut ==
    Items(Remaining(SortedDesc(rec_trace.matched), rec_trace.diverse))
        \ Items(Backfilled)

\* C16: when the diversity pass selected fewer than 3 items, no item the
\* backfill appended has a lower score than a candidate it left out.
C16_BackfillByScore ==
    (rec_pc = "returned" /\ rec_trace.path = "strict") =>
        \A b \in Items(Backfilled), r \in LeftOut : b.match_score >= r.match_score

\* the place of candidate e in sorted_matched
PlaceOf(e) ==
    CHOOSE i \in DOMAIN rec_trace.matched :
        /\ SortedDesc(rec_trace.matched)[i] = e
        /\ \A j \in 1..(i - 1) : SortedDesc(rec_trace.matched)[j] # e

\* C17: the diversity pass (before backfill) appends its items in
\* non-increasing order of the score rounded to one decimal, whatever the
\* shuffles; every item it appends is a candidate of the strict pass.
C17_BucketOrder ==
    (rec_pc = "returned" /\ rec_trace.path \in {"strict", "exception"}) =>
        /\ Items(rec_trace.diverse) \subseteq Items(rec_trace.matched)
        /\ \A i, j \in DOMAIN rec_trace.diverse :
              i < j => Bucket(rec_trace.diverse[i].match_score)
                          >= Bucket(rec_trace.diverse[j].match_score)

\* C17 witness: the shuffle exchanged two candidates of one score group, and
\* a candidate of a lower group came after both.
C17_Witness ==
    /\ rec_pc = "returned"
    /\ rec_trace.path = "strict"
    /\ Len(rec_trace.diverse) = 3
    /\ Bucket(rec_trace.diverse[1].match_score)
          = Bucket(rec_trace.diverse[2].match_score)
    /\ Bucket(rec_trace.diverse[3].match_score)
          < Bucket(rec_trace.diverse[2].match_score)
    /\ PlaceOf(rec_trace.diverse[1]) > PlaceOf(rec_trace.diverse[2])

\* the candidates the strict pass kept, and whether product p is vetoed
Candidates == {rec_trace.matched[i].p : i \in DOMAIN rec_trace.matched}
Vetoed(p) == GenderRule(p, user_profile).veto

StatedGender(up) ==
    FromText(FromDict(FromState(DetectedGender(up)),
                      HasAnalysis(up) /\ up.sa_kind = "dict", Lower(up.sa_gender)),
             SkinAnalysisCalc(up))

\* line 268: the gender bonus of a product without gender marker when the
\* user's gender is unknown
NeutralBonus == GenderDecision(Flags(FALSE, FALSE), FALSE, FALSE).score

\* C19: for a user whose gender neither the state nor the skin analysis
\* gives, no product is vetoed and every gender-marked product gets a
\* strictly smaller gender bonus than a product without marker.
C19_UnknownGenderReduced ==
    (/\ rec_pc = "returned"
     /\ rec_trace.path # "none"
     /\ Unset(StatedGender(user_profile))) =>
        \A i \in DOMAIN product_info :
            /\ ~GenderRule(product_info[i], user_profile).veto
            /\ (MaleMarked(product_info[i]) \/ FemaleMarked(product_info[i])) =>
                  GenderRule(product_info[i], user_profile).score < NeutralBonus

(***************************************************************************)
(* Further claims about the RAGModel (specification SpecRAG)               *)
(***************************************************************************)
\* the last call parsed its query: retrieve got past the test of line 179
Parsed ==
    /\ rag_last.op \in {"retrieve", "get_product_recommendations"}
    /\ all_products # <<>> \/ elder_products # <<>>

\* the first of the three age patterns that matches the text, 0 without one
FirstPattern(text) ==
    IF \E k \in 1..3 : MatchStarts(text, k) # {}
    THEN Least({k \in 1..3 : MatchStarts(text, k) # {}})
    ELSE 0

\* C21: the age _parse_query extracts is the number captured by the first
\* of the patterns N sui, N+, N sui-yi-shang that matches; an elderly
\* keyword gives 60 only when no pattern matched; without pattern and
\* keyword there is no age.
C21_AgeExtraction ==
    Parsed =>
        /\ FirstPattern(rag_last.query) # 0 =>
              /\ rag_last.conditions.has_age
              /\ rag_last.conditions.age =
                    Captured(rag_last.query,
                             MatchStarts(rag_last.query, FirstPattern(rag_last.query)))
        /\ (FirstPattern(rag_last.query) = 0
                /\ AnyIn({LaoNian, NianZhang}, rag_last.query)) =>
              /\ rag_last.conditions.has_age
              /\ rag_last.conditions.age = 60
        /\ (FirstPattern(rag_last.query) = 0
                /\ ~AnyIn({LaoNian, NianZhang}, rag_last.query)) =>
              ~rag_last.conditions.has_age

\* C21 witness: a query with an elderly keyword and matches of the first and
\* the second pattern was parsed; the first pattern's number, not 60 and not
\* the second pattern's, is the age.
C21_Witness ==
    /\ Parsed
    /\ AnyIn({LaoNian, NianZhang}, rag_last.query)
    /\ MatchStarts(rag_last.query, 1) # {}
    /\ MatchStarts(rag_last.query, 2) # {}
    /\ rag_last.conditions.age = 45
    /\ Captured(rag_last.query, MatchStarts(rag_last.query, 2)) = 70


(***************************************************************************)
(* Further claims about the KnowledgeManager (specification SpecKM)        *)
(***************************************************************************)
\* the arguments of search that take part in the key of line 205
Tuples == QueryPool \X CategoryPool \X FilterPool \X (1..MaxTopK)

KeyOf(t) == CacheKey(t[1], t[2], t[3], t[4])

\* the keys that line 205 gives to more than one tuple
SharedKeys == {KeyOf(t) : t \in {s \in Tuples : \E u \in Tuples : u # s /\ KeyOf(u) = KeyOf(s)}}

\* C22: two searches that differ in a component of (query, category,
\* metadata filters, topK) never share a cache entry: the key of an entry of
\* the cache, and the key under which a search was answered from the cache,
\* is the key of one tuple only.
C22_KeyIsTuple ==
    /\ \A i \in DOMAIN cache : cache[i].key \notin SharedKeys
    /\ km_last.op = "search" /\ km_last.args.hit =>
          CacheKey(km_last.args.query, km_last.args.category,
                   km_last.args.metadata_filters, km_last.args.top_k) \notin SharedKeys


\* the key of the last call of search
LastKey ==
    CacheKey(km_last.args.query, km_last.args.category,
             km_last.args.metadata_filters, km_last.args.top_k)

\* the last call was a search with use_cache=True that the cache did not answer
MissedCache == km_last.op = "search" /\ km_last.args.use_cache /\ ~km_last.args.hit

\* C23: write-through: after a search called with use_cache=True that missed
\* the cache, the cache holds under the key of the call the result the call
\* returned, whatever that result is.
C23_WriteThrough ==
    MissedCache => Has(cache, LastKey) /\ Lookup(cache, LastKey) = km_last.result


(***************************************************************************)
(* Claims about the cache across updates (specification SpecStale)         *)
(***************************************************************************)
\* the step is a call of update_knowledge that returned or raised
UpdateStep == km_ops' = km_ops + 1 /\ km_last'.op = "update_knowledge"

\* the step is a search that the cache answered
HitStep == km_ops' = km_ops + 1 /\ km_last'.op = "search" /\ km_last'.args.hit

\* what the last search would return if it were computed on the corpus and
\* the index as they are now
Recomputed ==
    {o.result : o \in SearchOutcomes(documents, metadata_index, vector_index, <<>>,
                                     km_last.args.query, km_last.args.category,
                                     km_last.args.metadata_filters, km_last.args.top_k,
                                     FALSE, km_last.args.answer)}

\* the documents the knowledge directory gave
Loaded0 == _load_knowledge(disk).documents

\* C24: update_knowledge leaves the cache as it is, and a search with
\* use_cache=True for a key the cache holds returns the entry the cache held
\* before the call, whatever the corpus has become.
C24_StaleAfterUpdate ==
    [][/\ UpdateStep => cache' = cache
       /\ HitStep => /\ Has(cache, CacheKey(km_last'.args.query, km_last'.args.category,
                                            km_last'.args.metadata_filters,
                                            km_last'.args.top_k))
                     /\ km_last'.result =
                           Lookup(cache, CacheKey(km_last'.args.query, km_last'.args.category,
                                                  km_last'.args.metadata_filters,
                                                  km_last'.args.top_k))
                     /\ cache' = cache]_vars

\* an update has added documents, the next search was answered from the
\* cache, and computed on the present corpus it would have returned another
\* list, one that holds an added document
C24_Witness ==
    /\ km_last.op = "search" /\ km_last.args.hit /\ km_ops = 2
    /\ Len(documents) > Len(Loaded0)
    /\ \A r \in Recomputed :
          /\ r # km_last.result
          /\ \E i \in DOMAIN r :
                \A j \in DOMAIN Loaded0 : r[i].content # Loaded0[j].content


(***************************************************************************)
(* Claims about the index and the search (specification SpecKM)            *)
(***************************************************************************)
\* the last call built the index: initialize, or an update_knowledge that
\* returned
Rebuilt ==
    \/ km_last.op = "initialize"
    \/ km_last.op = "update_knowledge" /\ ~km_last.raised

\* C25: after initialize and after every update_knowledge that returns, the
\* index holds exactly one vector per document of the corpus, the vector at
\* position i being the one of documents[i] (the provider's, or the zero
\* vector that stands in for it).
C25_OneVectorPerDocument ==
    Rebuilt =>
        /\ ~vector_index.is_none
        /\ Len(vector_index.vecs) = Len(documents)
        /\ \A i \in DOMAIN vector_index.vecs :
              vector_index.vecs[i] \in {ProviderVal(documents[i].content), 0}


\* the last call was a search that the cache did not answer
Searched == km_last.op = "search" /\ ~km_last.args.hit

\* the vector of its query
QVec == predict(<<km_last.args.query>>, km_last.args.answer).vectors[1]

\* the number of neighbours line 236 asks for
Fetched == Min(km_last.args.top_k * 2, Len(documents))

\* the positions of the documents that pass every filter of the call
Eligible ==
    FilteredIndices(documents, metadata_index, km_last.args.category,
                    km_last.args.metadata_filters)

\* position p of the index is among the Fetched nearest of the query
AmongNearest(p) ==
    /\ p < Len(vector_index.vecs)
    /\ Cardinality({r \in 0..(Len(vector_index.vecs) - 1) :
            Dist(vector_index.vecs[r + 1], QVec.val)
                < Dist(vector_index.vecs[p + 1], QVec.val)}) < Fetched

\* C26: a search returns at most topK documents, each a different document
\* of the corpus that passes every filter and is among the min(2*topK,
\* corpus size) nearest neighbours of the query; a document that is not among
\* them is not returned.
C26_OverFetchTruncate ==
    Searched =>
        /\ Len(km_last.result) <= km_last.args.top_k
        /\ \E f \in [DOMAIN km_last.result -> Eligible] :
              /\ \A i, j \in DOMAIN f : i # j => f[i] # f[j]
              /\ \A i \in DOMAIN f :
                    /\ AmongNearest(f[i])
                    /\ km_last.result[i] =
                          Found(documents[f[i] + 1],
                                Similarity(Dist(vector_index.vecs[f[i] + 1], QVec.val)))

\* the search ranked the index, topK documents pass the filters, one of them
\* lies outside the neighbours fetched, and fewer than topK were returned
C26_Witness ==
    /\ Searched
    /\ QVec.dim = vector_index.d
    /\ Len(vector_index.vecs) = Len(documents)
    /\ Cardinality(Eligible) >= km_last.args.top_k
    /\ \E p \in Eligible : ~AmongNearest(p)
    /\ Len(km_last.result) < km_last.args.top_k


(***************************************************************************)
(* Further claims about the engine (specification Spec)                    *)
(***************************************************************************)
\* settings.py line 77: PRODUCT_RULES["elderly"]["max_recommendations"]
ElderlyMax == 4

\* line 277: the skin analysis holds a word of old age
ElderFlagged(up) == AnyIn(ElderlyWords, SkinAnalysisCalc(up))

\* the size bound the profile is entitled to
BoundFor(up) == IF ElderFlagged(up) THEN ElderlyMax ELSE TopK

\* C27 (as claimed): the list holds at most 3 products by default and at
\* most 4 for an elder-flagged profile, and an elder-flagged profile with at
\* least 4 surviving candidates receives 4 products.
C27_ElderGetsFour ==
    (rec_pc = "returned" /\ rec_trace.path = "strict") =>
        /\ Len(rec_result) <= BoundFor(user_profile)
        /\ (ElderFlagged(user_profile) /\ Len(rec_trace.matched) >= ElderlyMax) =>
              Cardinality(ReturnedProducts) = ElderlyMax


(***************************************************************************)
(* Claims about the catalogs of the RAGModel (specification SpecRAG)       *)
(***************************************************************************)
\* the keys line 142 goes through
ListKeys ==
    {"suitable_skin_types", "benefits", "tags", "target_concerns", "key_ingredients"}

\* the products of both catalogs, each with the product of the file it was
\* made from
Normalized ==
    IF ~rag_initialized \/ RagLoad(rag_disk) = Catalogs2(<<>>, <<>>) THEN {}
    ELSE {<<rag_disk.all.products[i], all_products[i]>> : i \in DOMAIN all_products}
            \cup {<<rag_disk.elder.products[i], elder_products[i]>> :
                    i \in DOMAIN elder_products}

InitializeAgain ==
    initialized /\ km_ops' = km_ops + 1 /\ km_last'.op = "initialize"

\* C29: once _initialized is set, a further call of initialize leaves the
\* documents, the metadata index, the vector index, the matrix and the cache
\* as they are: nothing is loaded or indexed a second time.
C29_InitializeOnce ==
    [][InitializeAgain =>
          /\ UNCHANGED <<documents, metadata_index, vector_index, embeddings_matrix,
                         cache>>
          /\ initialized']_vars

\* initialize was called again after a first initialization that built an
\* index without vectors over a corpus of documents, and after a search
\* that filled the cache
C29_Witness ==
    /\ km_last.op = "initialize" /\ km_ops = 2
    /\ cache # <<>>
    /\ documents # <<>>
    /\ vector_index.vecs = <<>>


(***************************************************************************)
(* Termination of predict (specification SpecEmbedLive)                    *)
(***************************************************************************)
\* every successful batch was answered with one vector per text
OnePerText ==
    \A b \in DOMAIN em_log :
        em_log[b].succeeded => Len(VectorsOfBatch(b)) = em_log[b].size

\* at most max_retries attempts per batch of at most batch_size texts; a
\* batch is in the output once: the provider's vectors of its first
\* successful attempt, or one zero vector per text after the last attempt
RetriesBounded ==
    /\ em_attempt < max_retries
    /\ \A i, j \in DOMAIN em_out : i < j => em_out[i].batch <= em_out[j].batch
    /\ \A i \in DOMAIN em_out : em_out[i].batch \in DOMAIN em_log
    /\ \A b \in DOMAIN em_log :
          /\ em_log[b].size \in 1..batch_size
          /\ em_log[b].attempts \in 1..max_retries
          /\ IF em_log[b].succeeded
             THEN /\ VectorsOfBatch(b) # <<>>
                  /\ \A i \in DOMAIN VectorsOfBatch(b) : ~VectorsOfBatch(b)[i].zero
             ELSE /\ em_log[b].attempts = max_retries
                  /\ Len(VectorsOfBatch(b)) = em_log[b].size
                  /\ \A i \in DOMAIN VectorsOfBatch(b) : VectorsOfBatch(b)[i].zero
    /\ (em_pc = "returned" /\ OnePerText) =>
          /\ Len(em_out) = em_input.n
          /\ \A j \in DOMAIN em_out : em_out[j].batch = (j - 1) \div batch_size + 1

\* C30: predict makes at most 3 attempts per batch of at most 10 texts, each
\* batch contributes to the output exactly once, the call terminates, and
\* when every successful batch was answered with one vector per text it
\* returns exactly n vectors in input order.
C30_BoundedRetry == []RetriesBounded /\ <>(em_pc = "returned")

\* twelve texts: the first batch failed three times and was replaced by zero
\* vectors, the second succeeded at its second attempt, twelve vectors came
\* back
C30_Witness ==
    /\ em_pc = "returned"
    /\ em_input.n = 12
    /\ Len(em_log) = 2
    /\ ~em_log[1].succeeded /\ em_log[1].attempts = max_retries
    /\ em_log[2].succeeded /\ em_log[2].attempts = 2
    /\ OnePerText
    /\ Len(em_out) = 12

====
